---- MODULE Spec2Model ----
(***************************************************************************)
(* Model of the validation pipe / exception filter pipeline of             *)
(* @bniddam-labs/api-core.                                                 *)
(*                                                                         *)
(* One request at a time travels: Receive -> pipe transform -> handler ->  *)
(* exception filter -> response.  Text is modelled as a sequence of        *)
(* tokens, so that "the body contains the diagnostic" is a membership      *)
(* test on tokens.  JavaScript values that may be of several types are     *)
(* tagged records [t, v] with v always a sequence of tokens.               *)
(***************************************************************************)
EXTENDS Integers, Sequences, FiniteSets, TLC

VARIABLES nodeEnv, pc, now, request, rawValue, schemaName, pipeKind, filterKind,
          parsedValue, exception, pipeLogs, filterLogs, response, events, call,
          transformCalls, interception, slugStore, slugRequests, slugLoop

\* events: what the current request emitted, in order (log records, response).
\* call: the last call of a helper or schema, [fn, ..., result].
\* transformCalls: the transform calls in progress on the pipe, one frame of
\* local variables per caller.
\* interception: the request LoggingInterceptor is handling, with the
\* records it logged and what it passed downstream.
\* slugStore: the application's set of used slugs, as it was at first, as it
\* is now, and the slugs generateUniqueSlug returned for it, in order.
\* slugRequests: the requests that read the store, generate a slug and insert it.
\* slugLoop: the local variables of one generateUniqueSlug call.
vars == <<nodeEnv, pc, now, request, rawValue, schemaName, pipeKind, filterKind,
          parsedValue, exception, pipeLogs, filterLogs, response, events, call,
          transformCalls, interception, slugStore, slugRequests, slugLoop>>

\* The state of the specifications that follow the pipeline.
helperVars == <<transformCalls, interception, slugStore, slugRequests, slugLoop>>

\* The variables of the slug specifications.
slugVars == <<slugStore, slugRequests, slugLoop>>

\* A number that may be undefined.
Missing == [defined |-> FALSE, n |-> 0]

Given(n) == [defined |-> TRUE, n |-> n]

\* Nothing has come out of the handler's Observable.
Nothing == [kind |-> "none", value |-> "", status |-> Missing, statusCode |-> Missing,
            stack |-> ""]

\* LoggingInterceptor is not handling a request.
NotIntercepting ==
    [pc |-> "idle", type |-> "", tapped |-> FALSE, method |-> "", url |-> "", ip |-> "",
     userAgent |-> "", userId |-> "", startTime |-> 0, responseStatus |-> 0,
     logs |-> <<>>, emitted |-> Nothing, passed |-> Nothing]

\* No slug is in use.
EmptyStore == [initial |-> {}, used |-> {}, returned |-> <<>>]

\* generateUniqueSlug is not running.
NotLooping ==
    [pc |-> "idle", value |-> <<>>, existingSlugs |-> {}, baseSlug |-> <<>>, slug |-> <<>>,
     attempt |-> 0, iterations |-> 0]

\* No call is in progress outside the pipeline.
HelpersIdle ==
    /\ transformCalls = <<>>
    /\ interception = NotIntercepting
    /\ slugStore = EmptyStore
    /\ slugRequests = <<>>
    /\ slugLoop = NotLooping

(***************************************************************************)
(* Bounds                                                                  *)
(***************************************************************************)
MaxClock == 1

(***************************************************************************)
(* JavaScript values                                                       *)
(***************************************************************************)
Undef == [t |-> "undefined", v |-> <<>>]

Str(tokens) == [t |-> "string", v |-> tokens]

StrList(items) == [t |-> "array", v |-> items]

Num(token) == [t |-> "number", v |-> <<token>>]

ObjVal(token) == [t |-> "object", v |-> <<token>>]

\* JavaScript truthiness of a tagged value: '' , 0 and undefined are falsy.
Truthy(x) ==
    CASE x.t = "undefined" -> FALSE
      [] x.t = "string" -> x.v # <<>>
      [] x.t = "number" -> x.v # <<"0">>
      [] OTHER -> TRUE

NodeEnvs == {"production", "development", "test"}

Requests == { [url |-> "/users", method |-> "POST"],
              [url |-> "/users/1", method |-> "GET"] }

NoRequest == [url |-> "", method |-> ""]

(***************************************************************************)
(* Raw request data and the schema's verdict on it (schema.parse).         *)
(***************************************************************************)
RawValues == {"undefined", "valid", "badEmail", "badTwo", "mid", "huge", "refineThrows"}

\* JSON.stringify(rawData, null, 2): undefined for an undefined value,
\* otherwise a text of some length.
JsonStringify(value) ==
    CASE value = "undefined" -> [defined |-> FALSE, text |-> "", len |-> 0]
      [] value = "valid" -> [defined |-> TRUE, text |-> "json:valid", len |-> 40]
      [] value = "badEmail" -> [defined |-> TRUE, text |-> "json:badEmail", len |-> 45]
      [] value = "badTwo" -> [defined |-> TRUE, text |-> "json:badTwo", len |-> 60]
      [] value = "mid" -> [defined |-> TRUE, text |-> "json:mid", len |-> 1500]
      [] value = "huge" -> [defined |-> TRUE, text |-> "json:huge", len |-> 3500]
      [] OTHER -> [defined |-> TRUE, text |-> "json:refineThrows", len |-> 30]

Issue(code, path, message) == [code |-> code, path |-> path, message |-> message]

\* The issues schema.parse reports for a raw value (empty when it is valid).
SchemaIssues(value) ==
    CASE value = "undefined" ->
            << Issue("invalid_type", <<>>, "Invalid input: expected object") >>
      [] value = "badEmail" ->
            << Issue("invalid_format", <<"email">>, "Invalid email address") >>
      [] value = "badTwo" ->
            << Issue("too_small", <<"user", "age">>, "Too small: expected >=18"),
               Issue("unrecognized_keys", <<>>, "Unrecognized key: admin") >>
      [] value = "mid" ->
            << Issue("invalid_value", <<"role">>, "Invalid option") >>
      [] value = "huge" ->
            << Issue("too_big", <<"items">>, "Too big: expected <=100 items") >>
      [] OTHER -> <<>>

\* schema.parse(value): returns the parsed value, throws a ZodError carrying
\* the issues, or lets an error thrown by a refinement escape.
SchemaParse(value) ==
    CASE value = "refineThrows" ->
            [kind |-> "error", issues |-> <<>>, parsed |-> "", message |-> "refine exploded"]
      [] SchemaIssues(value) # <<>> ->
            [kind |-> "zod", issues |-> SchemaIssues(value), parsed |-> "", message |-> "zod issues"]
      [] OTHER ->
            [kind |-> "ok", issues |-> <<>>, parsed |-> value, message |-> ""]

SchemaNames == {"", "createUserSchema"}

(***************************************************************************)
(* Exceptions                                                              *)
(***************************************************************************)
NoPayload == [kind |-> "none", str |-> <<>>, message |-> Undef, error |-> Undef, errors |-> <<>>]

StringPayload(tokens) ==
    [kind |-> "string", str |-> tokens, message |-> Undef, error |-> Undef, errors |-> <<>>]

ObjectPayload(message, error, errors) ==
    [kind |-> "object", str |-> <<>>, message |-> message, error |-> error, errors |-> errors]

NoException == [class |-> "none", status |-> 0, payload |-> NoPayload, message |-> <<>>, stack |-> ""]

\* new HttpException(response, status)
HttpException(payload, status, label) ==
    [class |-> "HttpException", status |-> status, payload |-> payload,
     message |-> <<label>>, stack |-> "stack of HttpException"]

\* A thrown Error that is not an HttpException.
PlainError(message, stack) ==
    [class |-> "Error", status |-> 0, payload |-> NoPayload,
     message |-> <<message>>, stack |-> stack]

\* A thrown value that is not an Error at all (throw 'oops').
ThrownValue(text) ==
    [class |-> "NonError", status |-> 0, payload |-> NoPayload,
     message |-> <<text>>, stack |-> ""]

\* new BadRequestException('text'): Nest builds {message, error: 'Bad Request', statusCode: 400}.
BadRequestExceptionOfString(tokens) ==
    [class |-> "HttpException", status |-> 400,
     payload |-> ObjectPayload(Str(tokens), Str(<<"Bad Request">>), <<>>),
     message |-> tokens, stack |-> "stack of BadRequestException"]

\* new BadRequestException({...}): the object is the response as given.
BadRequestExceptionOfObject(payload) ==
    [class |-> "HttpException", status |-> 400, payload |-> payload,
     message |-> <<"Bad Request Exception">>, stack |-> "stack of BadRequestException"]

\* Reading .length of undefined.
LengthOfUndefinedError ==
    [class |-> "Error", status |-> 0, payload |-> NoPayload,
     message |-> <<"Cannot read properties of undefined (reading 'length')">>,
     stack |-> "stack of TypeError"]

(***************************************************************************)
(* Log records.  lines is the list of text lines of the record, each a     *)
(* sequence of tokens; stack is the stack trace handed to the logger.      *)
(***************************************************************************)
LogRecord(context, level, lines, stack) ==
    [context |-> context, level |-> level, lines |-> lines, stack |-> stack]

RECURSIVE Join(_, _)
\* Array.prototype.join
Join(items, sep) ==
    IF items = <<>> THEN <<>>
    ELSE IF Len(items) = 1 THEN <<Head(items)>>
    ELSE <<Head(items), sep>> \o Join(Tail(items), sep)

RECURSIVE Flatten(_)
Flatten(seqs) ==
    IF seqs = <<>> THEN <<>> ELSE Head(seqs) \o Flatten(Tail(seqs))

SEPARATOR == "--------"

SchemaInfo(name) ==
    IF name # "" THEN <<"Schema: ", name>> ELSE <<"Schema: <unnamed>">>

\* issue.path.length > 0 ? issue.path.join('.') : '<root>'
PathText(issue) ==
    IF Len(issue.path) > 0 THEN Join(issue.path, ".") ELSE <<"<root>">>

(***************************************************************************)
(* ZodValidationPipe of src/pipes (the Zod v4 pipe)                        *)
(***************************************************************************)
LOG_TRUNCATE == 3000

\* readInput(issue): Zod v4 issues carry no input unless reportInput is set.
readInput(issue) == "<no input>"

\* formatIssue: the header line and the lines of the issue's kind.
formatIssue(issue) ==
    LET head == << <<"  * ">> \o PathText(issue) \o <<": ", issue.message>> >>
        input == <<"    - Input: ", readInput(issue)>>
    IN  CASE issue.code = "invalid_type" -> head \o << <<"    - Expected: ">>, input >>
          [] issue.code = "invalid_format" -> head \o << <<"    - Format: ">>, input >>
          [] issue.code = "too_small" ->
                head \o << <<"    - Minimum: ">>, <<"    - Inclusive: ">>, input >>
          [] issue.code = "too_big" ->
                head \o << <<"    - Maximum: ">>, <<"    - Inclusive: ">>, input >>
          [] issue.code = "not_multiple_of" -> head \o << <<"    - Divisor: ">>, input >>
          [] issue.code = "unrecognized_keys" -> head \o << <<"    - Unrecognized keys: ">> >>
          [] issue.code = "invalid_union" -> head \o << <<"    - Invalid union">>, input >>
          [] issue.code = "invalid_key" -> head \o << <<"    - Invalid map/record key">>, input >>
          [] issue.code = "invalid_element" ->
                head \o << <<"    - Invalid element in map/set">>, input >>
          [] issue.code = "invalid_value" -> head \o << <<"    - Invalid value: ">>, input >>
          [] issue.code = "custom" -> head \o << <<"    - Custom validation error">>, input >>
          [] OTHER -> head \o << <<"    - [Unhandled Zod issue type]">> >>

\* The 'Raw data received' line: the payload text, cut at limit characters.
RawLine(json, limit, marker) ==
    IF json.len > limit THEN <<json.text, marker>> ELSE <<json.text>>

\* logZodValidationError: one logger.error call, or a TypeError when
\* JSON.stringify(rawData) is undefined and .length is read from it.
logZodValidationError(issues, rawData, name) ==
    LET json == JsonStringify(rawData)
        issueLines == Flatten([i \in 1..Len(issues) |-> formatIssue(issues[i])])
        lines == << <<>>, <<SEPARATOR>>, <<"[ZOD VALIDATION ERROR]">>, SchemaInfo(name),
                    <<>>, <<"Issues:">> >>
                 \o issueLines
                 \o << <<>>, <<"Raw data received:">>,
                       RawLine(json, LOG_TRUNCATE, "... [truncated]"),
                       <<SEPARATOR>>, <<>> >>
    IN  IF json.defined
        THEN [threw |-> FALSE, logs |-> <<LogRecord("ZodValidationPipe", "error", lines, "")>>]
        ELSE [threw |-> TRUE, logs |-> <<>>]

Returned(value, logged) ==
    [kind |-> "return", value |-> value, exception |-> NoException, logs |-> logged]

Thrown(exc, logged) ==
    [kind |-> "throw", value |-> "", exception |-> exc, logs |-> logged]

\* ZodValidationPipe.transform
ZodValidationPipe_transform(value, name, env) ==
    LET parsed == SchemaParse(value)
    IN  CASE parsed.kind = "ok" -> Returned(parsed.parsed, <<>>)
          [] parsed.kind = "zod" ->
                LET logged == logZodValidationError(parsed.issues, value, name)
                IN  IF logged.threw
                    THEN Thrown(LengthOfUndefinedError, logged.logs)
                    ELSE Thrown(BadRequestExceptionOfString(<<"Validation error">>), logged.logs)
          [] OTHER -> Thrown(PlainError(parsed.message, "stack of refinement"), <<>>)

(***************************************************************************)
(* ZodValidationPipe of src/nestjs/pipes (the pipe that answers with the   *)
(* per-issue errors)                                                       *)
(***************************************************************************)
NEST_LOG_TRUNCATE == 1000

\* One issue of the development log of the nestjs pipe.
NestIssueLines(issue) ==
    LET head == <<"  * ">> \o PathText(issue) \o <<": ", issue.message>>
    IN  CASE issue.code = "invalid_type" -> << head, <<"    - Type mismatch detected">> >>
          [] issue.code \in {"too_small", "too_big"} -> << head, <<"    - Constraint violation">> >>
          [] OTHER -> << head >>

\* logZodValidationError of the nestjs pipe.
NestLogZodValidationError(issues, rawData, name) ==
    LET json == JsonStringify(rawData)
        issueLines == Flatten([i \in 1..Len(issues) |-> NestIssueLines(issues[i])])
        lines == << <<>>, <<SEPARATOR>>, <<"[ZOD VALIDATION ERROR]">>, SchemaInfo(name),
                    <<>>, <<"Issues:">> >>
                 \o issueLines
                 \o << <<>>, <<"Raw data received:">>,
                       RawLine(json, NEST_LOG_TRUNCATE, "... [truncated, total size]"),
                       <<SEPARATOR>>, <<>> >>
    IN  IF json.defined
        THEN [threw |-> FALSE, logs |-> <<LogRecord("ZodValidationPipe", "error", lines, "")>>]
        ELSE [threw |-> TRUE, logs |-> <<>>]

\* fromError(error).toString() of zod-validation-error: the issue messages
\* and paths joined into one sentence, or the message of another error.
ValidationErrorText(parsed) ==
    IF parsed.kind = "zod"
    THEN <<"ZodValidationError: ", "Validation error: ">>
         \o Flatten(Join([i \in 1..Len(parsed.issues) |->
                    IF Len(parsed.issues[i].path) > 0
                    THEN <<parsed.issues[i].message, " at ">> \o Join(parsed.issues[i].path, ".")
                    ELSE <<parsed.issues[i].message>>], <<"; ">>))
    ELSE <<"ZodValidationError: ", parsed.message>>

\* issues.map(issue => ({ path: issue.path.join('.'), message: issue.message }))
DetailedErrors(parsed) ==
    IF parsed.kind = "zod"
    THEN [i \in 1..Len(parsed.issues) |->
            [path |-> Join(parsed.issues[i].path, "."), message |-> parsed.issues[i].message]]
    ELSE <<>>

\* ZodValidationPipe.transform of the nestjs pipe
NestZodValidationPipe_transform(value, name, env) ==
    LET parsed == SchemaParse(value)
        logged == IF env = "development" /\ parsed.kind = "zod"
                  THEN NestLogZodValidationError(parsed.issues, value, name)
                  ELSE [threw |-> FALSE, logs |-> <<>>]
    IN  CASE parsed.kind = "ok" -> Returned(parsed.parsed, <<>>)
          [] logged.threw -> Thrown(LengthOfUndefinedError, logged.logs)
          [] OTHER ->
                Thrown(BadRequestExceptionOfObject(
                          ObjectPayload(Str(<<"Validation failed">>),
                                        Str(ValidationErrorText(parsed)),
                                        DetailedErrors(parsed))),
                       logged.logs)

(***************************************************************************)
(* Exception filters                                                       *)
(***************************************************************************)
EnvelopeFields == {"statusCode", "message", "error", "timestamp", "path", "method"}

GENERIC_MESSAGE == <<"Internal server error">>

INTERNAL_SERVER_ERROR == 500

SANITIZE_FROM == 500

\* getErrorName with the 429 entry of the table missing.
getErrorName_Missing429(status) ==
    CASE status = 400 -> <<"Bad Request">>
      [] status = 401 -> <<"Unauthorized">>
      [] status = 403 -> <<"Forbidden">>
      [] status = 404 -> <<"Not Found">>
      [] status = 409 -> <<"Conflict">>
      [] status = 422 -> <<"Unprocessable Entity">>
      [] status = 500 -> <<"Internal Server Error">>
      [] status = 502 -> <<"Bad Gateway">>
      [] status = 503 -> <<"Service Unavailable">>
      [] OTHER -> <<"Error">>

\* getErrorName (the same table in every filter)
getErrorName(status) ==
    CASE status = 400 -> <<"Bad Request">>
      [] status = 401 -> <<"Unauthorized">>
      [] status = 403 -> <<"Forbidden">>
      [] status = 404 -> <<"Not Found">>
      [] status = 409 -> <<"Conflict">>
      [] status = 422 -> <<"Unprocessable Entity">>
      [] status = 429 -> <<"Too Many Requests">>
      [] status = 500 -> <<"Internal Server Error">>
      [] status = 502 -> <<"Bad Gateway">>
      [] status = 503 -> <<"Service Unavailable">>
      [] OTHER -> <<"Error">>

ErrorResponse(status, message, error, ts, req) ==
    [fields |-> EnvelopeFields, statusCode |-> status, message |-> message,
     error |-> error, timestamp |-> ts, path |-> req.url, method |-> req.method]

Sent(status, body, logged) == [status |-> status, body |-> body, logs |-> logged]

\* The text of a message inside a template string.
MessageText(message) ==
    IF message.t = "array" THEN Join(message.v, ", ") ELSE message.v

\* HttpExceptionFilter.catch whose sanitization also rewrites statusCode to 500.
HttpExceptionFilter_catch_SanitizedStatus(exc, req, env, ts) ==
    LET status == exc.status
        payload == exc.payload
        message == CASE payload.kind = "object" /\ Truthy(payload.message) -> payload.message
                     [] payload.kind = "string" -> Str(payload.str)
                     [] OTHER -> Str(GENERIC_MESSAGE)
        error == IF payload.kind = "object" /\ Truthy(payload.error) /\ payload.error.t = "string"
                 THEN payload.error.v
                 ELSE getErrorName(status)
        head == <<"HTTP ", ToString(status), " Error: ", req.method, " ", req.url>>
        logged == IF status >= 500
                  THEN <<LogRecord("HttpExceptionFilter", "error", <<head>>, exc.stack)>>
                  ELSE <<LogRecord("HttpExceptionFilter", "warn",
                                   <<head \o <<" - ">> \o MessageText(message)>>, "")>>
        sanitize == env = "production" /\ status >= SANITIZE_FROM
        body == ErrorResponse(IF sanitize THEN 500 ELSE status,
                              IF sanitize THEN Str(GENERIC_MESSAGE) ELSE message,
                              IF sanitize THEN <<"Internal Server Error">> ELSE error,
                              ts, req)
    IN  Sent(status, body, logged)

\* HttpExceptionFilter.catch
HttpExceptionFilter_catch(exc, req, env, ts) ==
    LET status == exc.status
        payload == exc.payload
        message == CASE payload.kind = "object" /\ Truthy(payload.message) -> payload.message
                     [] payload.kind = "string" -> Str(payload.str)
                     [] OTHER -> Str(GENERIC_MESSAGE)
        error == IF payload.kind = "object" /\ Truthy(payload.error) /\ payload.error.t = "string"
                 THEN payload.error.v
                 ELSE getErrorName(status)
        head == <<"HTTP ", ToString(status), " Error: ", req.method, " ", req.url>>
        logged == IF status >= 500
                  THEN <<LogRecord("HttpExceptionFilter", "error", <<head>>, exc.stack)>>
                  ELSE <<LogRecord("HttpExceptionFilter", "warn",
                                   <<head \o <<" - ">> \o MessageText(message)>>, "")>>
        sanitize == env = "production" /\ status >= SANITIZE_FROM
        body == ErrorResponse(status,
                              IF sanitize THEN Str(GENERIC_MESSAGE) ELSE message,
                              IF sanitize THEN <<"Internal Server Error">> ELSE error,
                              ts, req)
    IN  Sent(status, body, logged)

\* The log call shared by both AllExceptionsFilter versions.
AllExceptionsLog(exc, req) ==
    <<LogRecord("AllExceptionsFilter", "error",
                << <<"Unhandled exception: ", req.method, " ", req.url>> >>,
                IF exc.class = "NonError" THEN Head(exc.message) ELSE exc.stack)>>

\* AllExceptionsFilter.catch that sanitizes in production from status 500 only.
AllExceptionsFilter_catch_SanitizeFrom500(exc, req, env, ts) ==
    LET isHttp == exc.class = "HttpException"
        status == IF isHttp THEN exc.status ELSE INTERNAL_SERVER_ERROR
        payload == exc.payload
        message == CASE isHttp /\ payload.kind = "string" -> Str(payload.str)
                     [] isHttp /\ payload.kind = "object" /\ Truthy(payload.message) ->
                            payload.message
                     [] OTHER -> Str(GENERIC_MESSAGE)
        body == ErrorResponse(status,
                              IF env = "production" /\ status >= 500
                              THEN Str(GENERIC_MESSAGE) ELSE message,
                              getErrorName(status), ts, req)
    IN  Sent(status, body, AllExceptionsLog(exc, req))

\* AllExceptionsFilter.catch (src/filters, logging through the winston Logger)
AllExceptionsFilter_catch(exc, req, env, ts) ==
    LET isHttp == exc.class = "HttpException"
        status == IF isHttp THEN exc.status ELSE INTERNAL_SERVER_ERROR
        payload == exc.payload
        message == CASE isHttp /\ payload.kind = "string" -> Str(payload.str)
                     [] isHttp /\ payload.kind = "object" /\ Truthy(payload.message) ->
                            payload.message
                     [] OTHER -> Str(GENERIC_MESSAGE)
        body == ErrorResponse(status,
                              IF env = "production" THEN Str(GENERIC_MESSAGE) ELSE message,
                              getErrorName(status), ts, req)
    IN  Sent(status, body, AllExceptionsLog(exc, req))

\* AllExceptionsFilter.catch (src/http/filters): message = responseObj.message ?? message
HttpAllExceptionsFilter_catch(exc, req, env, ts) ==
    LET isHttp == exc.class = "HttpException"
        status == IF isHttp THEN exc.status ELSE INTERNAL_SERVER_ERROR
        payload == exc.payload
        message == CASE isHttp /\ payload.kind = "string" -> Str(payload.str)
                     [] isHttp /\ payload.kind = "object" /\ payload.message.t # "undefined" ->
                            payload.message
                     [] OTHER -> Str(GENERIC_MESSAGE)
        body == ErrorResponse(status,
                              IF env = "production" THEN Str(GENERIC_MESSAGE) ELSE message,
                              getErrorName(status), ts, req)
    IN  Sent(status, body, AllExceptionsLog(exc, req))

(***************************************************************************)
(* What a handler may throw                                                *)
(***************************************************************************)
HttpStatuses == {400, 401, 403, 404, 409, 418, 422, 429, 500, 501, 502, 503, 999}

Payloads ==
    { StringPayload(<<"User 42 not found">>),
      ObjectPayload(Str(<<"Email already taken">>), Undef, <<>>),
      ObjectPayload(StrList(<<"name is required", "age must be a number">>), Undef, <<>>),
      ObjectPayload(Str(<<"Order rejected">>), Str(<<"Order Error">>), <<>>),
      ObjectPayload(Undef, Undef, <<>>),
      ObjectPayload(Num("42"), Undef, <<>>),
      ObjectPayload(Str(<<>>), Undef, <<>>),
      ObjectPayload(ObjVal("{field: 'email'}"), Num("7"), <<>>) }

HandlerExceptions ==
    { HttpException(p, st, "Http Exception") : p \in Payloads, st \in HttpStatuses }
    \cup { PlainError("connect ECONNREFUSED db:5432", "stack of db error"),
           PlainError("secret token rejected", "stack of auth error"),
           ThrownValue("oops") }

PipeKinds == {"ZodValidationPipe", "NestZodValidationPipe"}

FilterKinds == {"HttpExceptionFilter", "AllExceptionsFilter", "HttpAllExceptionsFilter"}

NoResponse ==
    [status |-> 0,
     body |-> [fields |-> {}, statusCode |-> 0, message |-> Undef, error |-> <<>>,
               timestamp |-> 0, path |-> "", method |-> ""]]

\* The body of a successful answer carries the handler's data only.
OkResponse ==
    [status |-> 200,
     body |-> [fields |-> {"data"}, statusCode |-> 0, message |-> Undef, error |-> <<>>,
               timestamp |-> 0, path |-> "", method |-> ""]]

(***************************************************************************)
(* State machine                                                           *)
(***************************************************************************)
LogEvent(record) == [kind |-> "log", level |-> record.level, status |-> 0]

ResponseEvent(status) == [kind |-> "response", level |-> "", status |-> status]

\* catch with the two calls swapped: the answer leaves before the logger is called.
SendThenLog(sent) ==
    <<ResponseEvent(sent.status)>> \o [i \in 1..Len(sent.logs) |-> LogEvent(sent.logs[i])]

\* The order of the two effects of catch: the logger call (error or warn)
\* comes first, response.status(status).json(errorResponse) is the last statement.
LogThenSend(sent) ==
    [i \in 1..Len(sent.logs) |-> LogEvent(sent.logs[i])] \o <<ResponseEvent(sent.status)>>

\* No helper has been called.
NoCall == [fn |-> "none"]

Init ==
    /\ nodeEnv \in NodeEnvs
    /\ pc = "idle"
    /\ now = 0
    /\ request = NoRequest
    /\ rawValue = "valid"
    /\ schemaName = ""
    /\ pipeKind \in PipeKinds
    /\ filterKind \in FilterKinds
    /\ parsedValue = ""
    /\ exception = NoException
    /\ pipeLogs = <<>>
    /\ filterLogs = <<>>
    /\ response = NoResponse
    /\ events = <<>>
    /\ call = NoCall
    /\ HelpersIdle

\* The clock read by new Date() advances.
Tick ==
    /\ now < MaxClock
    /\ now' = now + 1
    /\ UNCHANGED <<nodeEnv, pc, request, rawValue, schemaName, pipeKind, filterKind,
                   parsedValue, exception, pipeLogs, filterLogs, response, events, call, helperVars>>

\* A request arrives: the framework extracts the raw value for the decorated parameter.
Receive ==
    /\ pc \in {"idle", "responded"}
    /\ \E req \in Requests, value \in RawValues, name \in SchemaNames :
          /\ request' = req
          /\ rawValue' = value
          /\ schemaName' = name
    /\ pc' = "pipe"
    /\ parsedValue' = ""
    /\ exception' = NoException
    /\ pipeLogs' = <<>>
    /\ filterLogs' = <<>>
    /\ response' = NoResponse
    /\ events' = <<>>
    /\ UNCHANGED <<nodeEnv, now, pipeKind, filterKind, call, helperVars>>

PipeResult ==
    IF pipeKind = "ZodValidationPipe"
    THEN ZodValidationPipe_transform(rawValue, schemaName, nodeEnv)
    ELSE NestZodValidationPipe_transform(rawValue, schemaName, nodeEnv)

\* The pipe's transform runs on the raw value.
Transform ==
    /\ pc = "pipe"
    /\ pipeLogs' = PipeResult.logs
    /\ parsedValue' = PipeResult.value
    /\ exception' = PipeResult.exception
    /\ pc' = IF PipeResult.kind = "return" THEN "handler" ELSE "filter"
    /\ UNCHANGED <<nodeEnv, now, request, rawValue, schemaName, pipeKind, filterKind,
                   filterLogs, response, events, call, helperVars>>

\* The route handler answers.
HandlerReturns ==
    /\ pc = "handler"
    /\ response' = OkResponse
    /\ events' = <<ResponseEvent(OkResponse.status)>>
    /\ pc' = "responded"
    /\ UNCHANGED <<nodeEnv, now, request, rawValue, schemaName, pipeKind, filterKind,
                   parsedValue, exception, pipeLogs, filterLogs, call, helperVars>>

\* The route handler throws.
HandlerThrows ==
    /\ pc = "handler"
    /\ \E exc \in HandlerExceptions : exception' = exc
    /\ pc' = "filter"
    /\ UNCHANGED <<nodeEnv, now, request, rawValue, schemaName, pipeKind, filterKind,
                   parsedValue, pipeLogs, filterLogs, response, events, call, helperVars>>

Respond(sent) ==
    /\ response' = [status |-> sent.status, body |-> sent.body]
    /\ filterLogs' = sent.logs
    /\ events' = LogThenSend(sent)
    /\ pc' = "responded"
    /\ UNCHANGED <<nodeEnv, now, request, rawValue, schemaName, pipeKind, filterKind,
                   parsedValue, exception, pipeLogs, call, helperVars>>

\* @Catch(HttpException): the filter takes HttpException instances only.
CatchHttp ==
    /\ pc = "filter"
    /\ filterKind = "HttpExceptionFilter"
    /\ exception.class = "HttpException"
    /\ Respond(HttpExceptionFilter_catch(exception, request, nodeEnv, now))

\* An exception the registered filter does not take reaches the framework's
\* own handler, which answers 500 with {statusCode, message}.
FrameworkDefault ==
    /\ pc = "filter"
    /\ filterKind = "HttpExceptionFilter"
    /\ exception.class # "HttpException"
    /\ Respond(Sent(500,
                    [fields |-> {"statusCode", "message"}, statusCode |-> 500,
                     message |-> Str(GENERIC_MESSAGE), error |-> <<>>,
                     timestamp |-> 0, path |-> "", method |-> ""],
                    <<LogRecord("ExceptionsHandler", "error", <<exception.message>>,
                                exception.stack)>>))

\* @Catch(): every exception
CatchAll ==
    /\ pc = "filter"
    /\ filterKind = "AllExceptionsFilter"
    /\ Respond(AllExceptionsFilter_catch(exception, request, nodeEnv, now))

CatchAllHttp ==
    /\ pc = "filter"
    /\ filterKind = "HttpAllExceptionsFilter"
    /\ Respond(HttpAllExceptionsFilter_catch(exception, request, nodeEnv, now))

Next ==
    \/ Tick
    \/ Receive
    \/ Transform
    \/ HandlerReturns
    \/ HandlerThrows
    \/ CatchHttp
    \/ FrameworkDefault
    \/ CatchAll
    \/ CatchAllHttp

Spec == Init /\ [][Next]_vars

(***************************************************************************)
(* Vocabulary of the properties                                            *)
(***************************************************************************)
Range(f) == { f[i] : i \in DOMAIN f }

\* The raw value fails the schema.
FailsSchema(value) == SchemaParse(value).kind = "zod"

\* transform has run for the current request.
Transformed == pc \in {"handler", "filter", "responded"}

\* The exception at hand is the one the pipe threw.
PipeThrew == pc \in {"filter", "responded"} /\ SchemaParse(rawValue).kind # "ok"

\* The answer was written by one of the library's filters.
AnsweredByFilter ==
    /\ pc = "responded"
    /\ exception.class # "none"
    /\ (filterKind = "HttpExceptionFilter" => exception.class = "HttpException")

\* The per-field diagnostic: every issue's message and every key of its path.
DiagnosticTokens(value) ==
    UNION { {SchemaIssues(value)[i].message} \cup Range(SchemaIssues(value)[i].path)
            : i \in DOMAIN SchemaIssues(value) }

\* Every piece of text an exception carries.
ExceptionTokens(exc) ==
    Range(exc.message) \cup Range(exc.payload.str) \cup Range(exc.payload.message.v)
    \cup Range(exc.payload.error.v)
    \cup UNION { {exc.payload.errors[i].message} \cup Range(exc.payload.errors[i].path)
                 : i \in DOMAIN exc.payload.errors }

\* Every piece of text in the message and error fields of a body.
BodyTokens(body) == Range(body.message.v) \cup Range(body.error)

\* Every piece of text in a list of log records.
LogTokens(records) ==
    UNION { UNION { Range(records[i].lines[j]) : j \in DOMAIN records[i].lines }
            : i \in DOMAIN records }

\* The HTTP status an exception stands for.
TrueStatus(exc) == IF exc.class = "HttpException" THEN exc.status ELSE 500

\* The exception's own message, as the client would read it.
OwnMessage(exc) ==
    CASE exc.class # "HttpException" -> Str(exc.message)
      [] exc.payload.kind = "string" -> Str(exc.payload.str)
      [] OTHER -> exc.payload.message

\* What the filter in use computes for an exception under a given NODE_ENV.
FilterCatch(kind, exc, req, env, ts) ==
    CASE kind = "HttpExceptionFilter" -> HttpExceptionFilter_catch(exc, req, env, ts)
      [] kind = "AllExceptionsFilter" -> AllExceptionsFilter_catch(exc, req, env, ts)
      [] OTHER -> HttpAllExceptionsFilter_catch(exc, req, env, ts)

(***************************************************************************)
(* C1                                                                      *)
(***************************************************************************)
\* C1: for every raw value that fails the schema, the undefined value
\* included, transform of the src/pipes ZodValidationPipe throws a
\* BadRequestException (400) whose only message is 'Validation error' and
\* which carries no issue path and no issue message.
C1_GenericBadRequest ==
    (pipeKind = "ZodValidationPipe" /\ PipeThrew /\ FailsSchema(rawValue)) =>
        /\ exception.class = "HttpException"
        /\ exception.status = 400
        /\ exception.payload.message = Str(<<"Validation error">>)
        /\ exception.message = <<"Validation error">>
        /\ ExceptionTokens(exception) \cap DiagnosticTokens(rawValue) = {}

(***************************************************************************)
(* C2                                                                      *)
(***************************************************************************)
GenericMessages ==
    { Str(<<"Validation error">>), Str(<<"Validation failed">>), Str(GENERIC_MESSAGE) }

\* C2: a request whose raw value fails the schema ends, for either pipe and
\* any filter, in a 400 answer whose message is a short generic string and
\* whose message and error fields hold none of the per-field diagnostic.
C2_Generic400EndToEnd ==
    (pc = "responded" /\ FailsSchema(rawValue)) =>
        /\ response.status = 400
        /\ response.body.statusCode = 400
        /\ response.body.message \in GenericMessages
        /\ BodyTokens(response.body) \cap DiagnosticTokens(rawValue) = {}

(***************************************************************************)
(* C3                                                                      *)
(***************************************************************************)
\* C3: transform emits exactly one log record when validation fails and
\* none when it succeeds, whatever NODE_ENV is.
C3_OneLogPerFailure ==
    Transformed =>
        /\ (FailsSchema(rawValue) => Len(pipeLogs) = 1)
        /\ (SchemaParse(rawValue).kind = "ok" => Len(pipeLogs) = 0)

(***************************************************************************)
(* C4                                                                      *)
(***************************************************************************)
\* C4: when NODE_ENV is not 'development', a failed validation writes
\* neither the issues nor the raw payload to the log.
C4_DetailedLogInDevelopmentOnly ==
    (Transformed /\ FailsSchema(rawValue) /\ nodeEnv # "development") =>
        LogTokens(pipeLogs) \cap
            (DiagnosticTokens(rawValue) \cup {JsonStringify(rawValue).text}) = {}

(***************************************************************************)
(* C5                                                                      *)
(***************************************************************************)
\* C5: for an error that is not an HttpException, AllExceptionsFilter
\* answers 500; in production with message 'Internal server error' and
\* error 'Internal Server Error', under any other NODE_ENV with the thrown
\* error's real message.
C5_UnclassifiedError ==
    (AnsweredByFilter /\ filterKind # "HttpExceptionFilter"
        /\ SchemaParse(rawValue).kind = "ok"
        /\ exception.class # "HttpException") =>
        /\ response.status = 500
        /\ response.body.statusCode = 500
        /\ (nodeEnv = "production" =>
                /\ response.body.message = Str(GENERIC_MESSAGE)
                /\ response.body.error = <<"Internal Server Error">>)
        /\ (nodeEnv # "production" => response.body.message = Str(exception.message))

(***************************************************************************)
(* C6                                                                      *)
(***************************************************************************)
\* C6: in every answer of a filter the body's statusCode is the HTTP status
\* set on the response, which is the exception's true status; production
\* sanitization leaves statusCode, path and method as they are under any
\* other NODE_ENV.
C6_StatusCodeIsHttpStatus ==
    AnsweredByFilter =>
        /\ response.body.statusCode = response.status
        /\ response.status = TrueStatus(exception)
        /\ response.body.path = request.url
        /\ response.body.method = request.method
        /\ \A env \in NodeEnvs :
              LET other == FilterCatch(filterKind, exception, request, env, now)
              IN  /\ other.status = response.status
                  /\ other.body.statusCode = response.body.statusCode
                  /\ other.body.path = response.body.path
                  /\ other.body.method = response.body.method

\* A 503 was sanitized in production by HttpExceptionFilter.
C6_Witness ==
    /\ AnsweredByFilter
    /\ filterKind = "HttpExceptionFilter"
    /\ nodeEnv = "production"
    /\ exception.status = 503
    /\ exception.payload.kind = "string"
    /\ response.body.message = Str(GENERIC_MESSAGE)
    /\ response.body.statusCode = 503

(***************************************************************************)
(* C7                                                                      *)
(***************************************************************************)
\* C7: for an HttpException handled in production, the message of the
\* answer is the generic string when the status is 500 or above, and the
\* exception's own message when the status is below 500, in every filter.
C7_SanitizeFrom500Only ==
    (AnsweredByFilter /\ nodeEnv = "production" /\ exception.class = "HttpException"
        /\ Truthy(OwnMessage(exception))) =>
        /\ (exception.status >= 500 => response.body.message = Str(GENERIC_MESSAGE))
        /\ (exception.status < 500 => response.body.message = OwnMessage(exception))

(***************************************************************************)
(* C8                                                                      *)
(***************************************************************************)
Exceptions ==
    HandlerExceptions
    \cup { ZodValidationPipe_transform(v, n, e).exception :
             v \in RawValues \ {"valid"}, n \in SchemaNames, e \in NodeEnvs }
    \cup { NestZodValidationPipe_transform(v, n, e).exception :
             v \in RawValues \ {"valid"}, n \in SchemaNames, e \in NodeEnvs }

\* C8: in production the body AllExceptionsFilter sends is the same, the
\* timestamp apart, for every exception of the same HTTP status on the same
\* request, and holds no text of the exception and no stack trace.
C8_ProductionBodyDependsOnStatusOnly ==
    (AnsweredByFilter /\ filterKind # "HttpExceptionFilter" /\ nodeEnv = "production") =>
        /\ \A other \in Exceptions, ts \in 0..MaxClock :
              TrueStatus(other) = TrueStatus(exception) =>
                  [FilterCatch(filterKind, other, request, nodeEnv, ts).body
                      EXCEPT !.timestamp = 0]
                  = [response.body EXCEPT !.timestamp = 0]
        /\ BodyTokens(response.body) \cap (ExceptionTokens(exception) \cup {exception.stack})
              \subseteq Range(getErrorName(response.status)) \cup Range(GENERIC_MESSAGE)

\* A 4xx HttpException with a message of its own was answered in production.
C8_Witness ==
    /\ AnsweredByFilter
    /\ filterKind = "AllExceptionsFilter"
    /\ nodeEnv = "production"
    /\ exception.status = 404
    /\ exception.payload.kind = "string"
    /\ response.body.message = Str(GENERIC_MESSAGE)

(***************************************************************************)
(* C9                                                                      *)
(***************************************************************************)
\* The canonical names of the status codes.
CanonicalName(status) ==
    CASE status = 400 -> <<"Bad Request">>
      [] status = 401 -> <<"Unauthorized">>
      [] status = 403 -> <<"Forbidden">>
      [] status = 404 -> <<"Not Found">>
      [] status = 409 -> <<"Conflict">>
      [] status = 422 -> <<"Unprocessable Entity">>
      [] status = 429 -> <<"Too Many Requests">>
      [] status = 500 -> <<"Internal Server Error">>
      [] status = 502 -> <<"Bad Gateway">>
      [] status = 503 -> <<"Service Unavailable">>
      [] OTHER -> <<"Error">>

\* C9 as stated: for every exception handled by either filter the error
\* field is the canonical name of the body's statusCode, 'Error' for a
\* status outside the table.
C9_ErrorIsCanonicalName ==
    AnsweredByFilter => response.body.error = CanonicalName(response.body.statusCode)

\* C9 amended: AllExceptionsFilter always answers the canonical name of
\* statusCode.  HttpExceptionFilter answers 'Internal Server Error' for
\* every status of 500 or above in production; otherwise the exception
\* response's own error field when that is a non-empty string; otherwise
\* the canonical name of statusCode.
C9_ErrorFieldAmended ==
    AnsweredByFilter =>
        IF filterKind # "HttpExceptionFilter"
        THEN response.body.error = CanonicalName(response.body.statusCode)
        ELSE IF nodeEnv = "production" /\ response.body.statusCode >= 500
        THEN response.body.error = <<"Internal Server Error">>
        ELSE IF exception.payload.kind = "object" /\ exception.payload.error.t = "string"
                /\ exception.payload.error.v # <<>>
        THEN response.body.error = exception.payload.error.v
        ELSE response.body.error = CanonicalName(response.body.statusCode)

\* HttpExceptionFilter passed on an error name that is not the canonical one.
C9_Witness ==
    /\ AnsweredByFilter
    /\ filterKind = "HttpExceptionFilter"
    /\ exception.status = 422
    /\ exception.payload.error = Str(<<"Order Error">>)
    /\ response.body.error = <<"Order Error">>

(***************************************************************************)
(* C10                                                                     *)
(***************************************************************************)
\* C10: every body a filter produces has the six envelope fields, path and
\* method copied from the request, a statusCode in [100,599] and a message
\* that is a string or a list of strings.
C10_EnvelopeSatisfiesSchema ==
    AnsweredByFilter =>
        /\ response.body.fields = EnvelopeFields
        /\ response.body.path = request.url
        /\ response.body.method = request.method
        /\ response.body.statusCode \in 100..599
        /\ response.body.message.t \in {"string", "array"}

(***************************************************************************)
(* C11                                                                     *)
(***************************************************************************)
\* The severity the claim gives for a catch.
ClaimedSeverity ==
    IF filterKind = "HttpExceptionFilter" /\ exception.status < 500 THEN "warn" ELSE "error"

\* C11: every catch of a filter emits exactly one log record and then sends
\* exactly one response, in that order, under every NODE_ENV.
\* HttpExceptionFilter logs at error severity when the status is 500 or above
\* and at warn severity otherwise; AllExceptionsFilter always logs at error.
C11_OneLogThenOneResponse ==
    AnsweredByFilter =>
        /\ Len(filterLogs) = 1
        /\ filterLogs[1].level = ClaimedSeverity
        /\ events = << [kind |-> "log", level |-> ClaimedSeverity, status |-> 0],
                       [kind |-> "response", level |-> "", status |-> response.status] >>

\* HttpExceptionFilter answered a 404 after a warn record, outside development.
C11_Witness ==
    /\ AnsweredByFilter
    /\ filterKind = "HttpExceptionFilter"
    /\ nodeEnv = "production"
    /\ exception.status = 404
    /\ events[1].level = "warn"
    /\ events[2].status = 404

(***************************************************************************)
(* Helper calls.  The helpers and schemas are pure functions; each has a   *)
(* specification of its own whose actions call it on inputs drawn from     *)
(* bounded sets and record the call.  No request is in flight meanwhile.   *)
(***************************************************************************)
requestVars == <<nodeEnv, pc, now, request, rawValue, schemaName, pipeKind, filterKind,
                 parsedValue, exception, pipeLogs, filterLogs, response, events>>

pipelineVars == <<requestVars, helperVars>>

\* The pipe and the filter are constructed and no request has arrived.
PipelineIdle ==
    /\ nodeEnv = "test"
    /\ pc = "idle"
    /\ now = 0
    /\ request = NoRequest
    /\ rawValue = "valid"
    /\ schemaName = ""
    /\ pipeKind = "ZodValidationPipe"
    /\ filterKind = "AllExceptionsFilter"
    /\ parsedValue = ""
    /\ exception = NoException
    /\ pipeLogs = <<>>
    /\ filterLogs = <<>>
    /\ response = NoResponse
    /\ events = <<>>
    /\ HelpersIdle

(***************************************************************************)
(* JavaScript numbers as the pagination helpers see them: an integer, NaN  *)
(* (a failed parseInt), or an argument that was not passed.                *)
(***************************************************************************)
NumInt(n) == [k |-> "int", n |-> n]

NaN == [k |-> "nan", n |-> 0]

Absent == [k |-> "absent", n |-> 0]

\* A default parameter value applies to an argument that is undefined.
OrDefault(x, d) == IF x.k = "absent" THEN NumInt(d) ELSE x

\* Math.floor
MathFloor(x) == x

\* Math.max(a, x) for an integer a: NaN when x is NaN.
MathMax(a, x) ==
    IF x.k = "nan" THEN NaN ELSE NumInt(IF x.n > a THEN x.n ELSE a)

\* Math.min(a, x): NaN when either is NaN.
MathMin(a, x) ==
    IF a.k = "nan" \/ x.k = "nan" THEN NaN ELSE NumInt(IF x.n < a.n THEN x.n ELSE a.n)

\* Math.ceil(total / limit) for total >= 0 and limit >= 1
CeilOfQuotient(total, limit) ==
    IF total % limit = 0 THEN total \div limit ELSE (total \div limit) + 1

(***************************************************************************)
(* Pagination helpers                                                      *)
(***************************************************************************)
DEFAULT_PAGE == 1

DEFAULT_LIMIT == 10

DEFAULT_MAX_LIMIT == 100

\* toOffsetPagination with the offset of the following page.
toOffsetPagination_FromPage(page, limit) ==
    [offset |-> page * limit, limit |-> limit]

\* toOffsetPagination
toOffsetPagination(page, limit) ==
    [offset |-> (page - 1) * limit, limit |-> limit]

\* calculatePaginationMeta with Math.floor in place of Math.ceil.
calculatePaginationMeta_Floor(page, limit, total) ==
    LET totalPages == total \div limit
    IN  [page |-> page, limit |-> limit, total |-> total, totalPages |-> totalPages,
         hasNextPage |-> page < totalPages, hasPreviousPage |-> page > 1]

\* calculatePaginationMeta
calculatePaginationMeta(page, limit, total) ==
    LET totalPages == CeilOfQuotient(total, limit)
    IN  [page |-> page, limit |-> limit, total |-> total, totalPages |-> totalPages,
         hasNextPage |-> page < totalPages, hasPreviousPage |-> page > 1]

\* createPaginatedResult
createPaginatedResult(data, page, limit, total) ==
    [data |-> data, meta |-> calculatePaginationMeta(page, limit, total)]

\* new PaginatedResponseDto(data, total, page, limit)
PaginatedResponseDto(data, total, page, limit) ==
    LET totalPages == CeilOfQuotient(total, limit)
    IN  [data |-> data,
         meta |-> [page |-> page, limit |-> limit, total |-> total,
                   totalPages |-> totalPages,
                   hasNextPage |-> page < totalPages, hasPreviousPage |-> page > 1]]

\* normalizePagination without the cap at maxLimit.
normalizePagination_NoCap(page, limit, maxLimit) ==
    [page |-> MathMax(1, MathFloor(OrDefault(page, DEFAULT_PAGE))),
     limit |-> MathMax(1, MathFloor(OrDefault(limit, DEFAULT_LIMIT)))]

\* normalizePagination
normalizePagination(page, limit, maxLimit) ==
    [page |-> MathMax(1, MathFloor(OrDefault(page, DEFAULT_PAGE))),
     limit |-> MathMin(OrDefault(maxLimit, DEFAULT_MAX_LIMIT),
                       MathMax(1, MathFloor(OrDefault(limit, DEFAULT_LIMIT))))]

MaxPage == 4

MaxPageSize == 4

MaxTotal == 13

\* The item lists handed to createPaginatedResult.
DataLists == { <<>>, <<"u1">>, <<"u1", "u2">> }

\* Arguments of normalizePagination: around 1, around the default limit,
\* around the default cap, not passed, and NaN.
NormalizeArgs ==
    { NumInt(n) : n \in {-3, 0, 1, 2, 9, 10, 11, 15, 20, 99, 100, 101, 200} } \cup {Absent, NaN}

NormalizeCaps == { NumInt(n) : n \in {0, 1, 15, 100, 150} } \cup {Absent}

\* The caller has taken the result; the next call starts afresh.
HelperReturns ==
    /\ call # NoCall
    /\ call' = NoCall
    /\ UNCHANGED pipelineVars

PaginationInit ==
    /\ PipelineIdle
    /\ call = NoCall

CallCalculatePaginationMeta ==
    /\ call = NoCall
    /\ \E page \in 1..MaxPage, limit \in 1..MaxPageSize, total \in 0..MaxTotal :
          call' = [fn |-> "calculatePaginationMeta", page |-> page, limit |-> limit,
                   total |-> total, data |-> <<>>,
                   result |-> [data |-> <<>>,
                               meta |-> calculatePaginationMeta(page, limit, total)]]
    /\ UNCHANGED pipelineVars

CallCreatePaginatedResult ==
    /\ call = NoCall
    /\ \E page \in 1..MaxPage, limit \in 1..MaxPageSize, total \in 0..MaxTotal,
          data \in DataLists :
          call' = [fn |-> "createPaginatedResult", page |-> page, limit |-> limit,
                   total |-> total, data |-> data,
                   result |-> createPaginatedResult(data, page, limit, total)]
    /\ UNCHANGED pipelineVars

CallPaginatedResponseDto ==
    /\ call = NoCall
    /\ \E page \in 1..MaxPage, limit \in 1..MaxPageSize, total \in 0..MaxTotal,
          data \in DataLists :
          call' = [fn |-> "PaginatedResponseDto", page |-> page, limit |-> limit,
                   total |-> total, data |-> data,
                   result |-> PaginatedResponseDto(data, total, page, limit)]
    /\ UNCHANGED pipelineVars

CallToOffsetPagination ==
    /\ call = NoCall
    /\ \E page \in 1..MaxPage, limit \in 1..MaxPageSize :
          call' = [fn |-> "toOffsetPagination", page |-> page, limit |-> limit,
                   result |-> toOffsetPagination(page, limit)]
    /\ UNCHANGED pipelineVars

CallNormalizePagination ==
    /\ call = NoCall
    /\ \E page \in NormalizeArgs, limit \in NormalizeArgs, maxLimit \in NormalizeCaps :
          call' = [fn |-> "normalizePagination", page |-> page, limit |-> limit,
                   maxLimit |-> maxLimit,
                   result |-> normalizePagination(page, limit, maxLimit)]
    /\ UNCHANGED pipelineVars

PaginationNext ==
    \/ CallCalculatePaginationMeta
    \/ CallCreatePaginatedResult
    \/ CallPaginatedResponseDto
    \/ CallToOffsetPagination
    \/ CallNormalizePagination
    \/ HelperReturns

PaginationSpec == PaginationInit /\ [][PaginationNext]_vars

(***************************************************************************)
(* C12                                                                     *)
(***************************************************************************)
\* n is the ceiling of total / limit: the least n with n * limit >= total.
IsCeiling(n, total, limit) ==
    /\ n >= 0
    /\ n * limit >= total
    /\ (n > 0 => (n - 1) * limit < total)

\* C12: for page >= 1, limit >= 1 and total >= 0, calculatePaginationMeta and
\* the PaginatedResponseDto constructor return page, limit and total unchanged,
\* totalPages = ceil(total / limit), hasNextPage = (page < totalPages) and
\* hasPreviousPage = (page > 1); createPaginatedResult returns that meta and
\* the data list unchanged.
C12_PaginationMeta ==
    call.fn \in {"calculatePaginationMeta", "createPaginatedResult", "PaginatedResponseDto"} =>
        LET meta == call.result.meta
        IN  /\ meta.page = call.page
            /\ meta.limit = call.limit
            /\ meta.total = call.total
            /\ IsCeiling(meta.totalPages, call.total, call.limit)
            /\ meta.hasNextPage = (call.page < meta.totalPages)
            /\ meta.hasPreviousPage = (call.page > 1)
            /\ call.result.data = call.data

\* calculatePaginationMeta({page: 2, limit: 4}, 13): a last page that is not full.
C12_Witness ==
    /\ call.fn = "calculatePaginationMeta"
    /\ call.page = 2 /\ call.limit = 4 /\ call.total = 13
    /\ call.result.meta.totalPages = 4
    /\ call.result.meta.hasNextPage
    /\ call.result.meta.hasPreviousPage

(***************************************************************************)
(* C13                                                                     *)
(***************************************************************************)
IntMax(a, b) == IF a > b THEN a ELSE b

IntMin(a, b) == IF a < b THEN a ELSE b

\* The integer an argument stands for, a given default standing for an absent one.
ReadAs(x, d) == IF x.k = "absent" THEN d ELSE x.n

\* C13: for integer (or absent) page and limit and integer maxLimit >= 1 (or
\* absent), normalizePagination returns page = max(1, page) and
\* limit = min(maxLimit, max(1, limit)), an absent page read as 1, an absent
\* limit as 10, an absent maxLimit as 100; a pair in range comes back unchanged.
C13_NormalizeClamps ==
    (call.fn = "normalizePagination"
        /\ call.page.k # "nan" /\ call.limit.k # "nan"
        /\ ReadAs(call.maxLimit, 100) >= 1) =>
        LET page == ReadAs(call.page, 1)
            limit == ReadAs(call.limit, 10)
            maxLimit == ReadAs(call.maxLimit, 100)
        IN  /\ call.result.page = NumInt(IntMax(1, page))
            /\ call.result.limit = NumInt(IntMin(maxLimit, IntMax(1, limit)))
            /\ (page >= 1 /\ limit \in 1..maxLimit =>
                    call.result = [page |-> NumInt(page), limit |-> NumInt(limit)])

\* normalizePagination(0, 200) = {page: 1, limit: 100}
C13_Witness ==
    /\ call.fn = "normalizePagination"
    /\ call.page = NumInt(0) /\ call.limit = NumInt(200) /\ call.maxLimit = Absent
    /\ call.result = [page |-> NumInt(1), limit |-> NumInt(100)]

(***************************************************************************)
(* C14                                                                     *)
(***************************************************************************)
\* C14: for every page and limit, an integer or NaN, and every cap,
\* normalizePagination returns valid pagination parameters: page >= 1 and
\* 1 <= limit <= maxLimit.
C14_NormalizeAlwaysValid ==
    (call.fn = "normalizePagination" /\ ReadAs(call.maxLimit, 100) >= 1) =>
        /\ call.result.page.k = "int"
        /\ call.result.page.n >= 1
        /\ call.result.limit.k = "int"
        /\ call.result.limit.n >= 1
        /\ call.result.limit.n <= ReadAs(call.maxLimit, 100)

(***************************************************************************)
(* Query-string values and the coercing pagination schema                  *)
(***************************************************************************)
\* A number strictly between n and n + 1.
NumFrac(n) == [k |-> "frac", n |-> n]

QueryAbsent == [t |-> "undefined", chars |-> <<>>, num |-> NaN]

QueryText(chars) == [t |-> "string", chars |-> chars, num |-> NaN]

QueryNumber(x) == [t |-> "number", chars |-> <<>>, num |-> x]

Digits == {"0", "1", "2", "3", "4", "5", "6", "7", "8", "9"}

DigitValue(c) ==
    CASE c = "0" -> 0 [] c = "1" -> 1 [] c = "2" -> 2 [] c = "3" -> 3 [] c = "4" -> 4
      [] c = "5" -> 5 [] c = "6" -> 6 [] c = "7" -> 7 [] c = "8" -> 8 [] c = "9" -> 9

RECURSIVE DigitsValue(_)
DigitsValue(s) ==
    IF s = <<>> THEN 0
    ELSE DigitsValue(SubSeq(s, 1, Len(s) - 1)) * 10 + DigitValue(s[Len(s)])

WhiteSpace == {" "}

RECURSIVE TrimStart(_)
TrimStart(s) ==
    IF s # <<>> /\ s[1] \in WhiteSpace THEN TrimStart(Tail(s)) ELSE s

RECURSIVE TrimEnd(_)
TrimEnd(s) ==
    IF s # <<>> /\ s[Len(s)] \in WhiteSpace THEN TrimEnd(SubSeq(s, 1, Len(s) - 1)) ELSE s

\* A trim that removes at most one white space character at each end.
TrimOne(s) ==
    LET a == IF s # <<>> /\ s[1] \in WhiteSpace THEN Tail(s) ELSE s
    IN  IF a # <<>> /\ a[Len(a)] \in WhiteSpace THEN SubSeq(a, 1, Len(a) - 1) ELSE a

\* String.prototype.trim
Trim(s) == TrimEnd(TrimStart(s))

\* Number(text) for decimal literals: white space is trimmed, the empty text
\* is 0, a sign, digits and a fraction are read, anything else is NaN.
\* (Exponents, radix prefixes and Infinity are outside the texts drawn.)
StringToNumber(chars) ==
    LET t == Trim(chars)
        signed == t # <<>> /\ t[1] \in {"-", "+"}
        negative == signed /\ t[1] = "-"
        body == IF signed THEN Tail(t) ELSE t
        dots == {i \in 1..Len(body) : body[i] = "."}
        dot == IF dots = {} THEN Len(body) + 1
               ELSE CHOOSE i \in dots : \A j \in dots : i <= j
        intPart == SubSeq(body, 1, dot - 1)
        fracPart == SubSeq(body, dot + 1, Len(body))
        wellFormed == /\ \A i \in 1..Len(intPart) : intPart[i] \in Digits
                      /\ \A i \in 1..Len(fracPart) : fracPart[i] \in Digits
                      /\ Len(intPart) + Len(fracPart) > 0
        whole == \A i \in 1..Len(fracPart) : fracPart[i] = "0"
        magnitude == DigitsValue(intPart)
    IN  IF t = <<>> THEN NumInt(0)
        ELSE IF ~wellFormed THEN NaN
        ELSE IF whole THEN NumInt(IF negative THEN 0 - magnitude ELSE magnitude)
        ELSE NumFrac(IF negative THEN 0 - magnitude - 1 ELSE magnitude)

\* z.coerce: Number(input)
CoerceNumber(v) ==
    CASE v.t = "string" -> StringToNumber(v.chars)
      [] v.t = "number" -> v.num
      [] OTHER -> NaN

MAX_ITEMS_PER_PAGE == 100

FieldOk(v) == [ok |-> TRUE, value |-> v, issues |-> {}]

FieldError(codes) == [ok |-> FALSE, value |-> QueryAbsent, issues |-> codes]

\* .int().positive() and, with a maximum, .max(maximum) on a coerced number
NumberChecks(x, hasMax, maximum) ==
    IF x.k = "nan" THEN {"invalid_type"}
    ELSE (IF x.k = "frac" THEN {"not_integer"} ELSE {})
         \cup (IF (x.k = "int" /\ x.n <= 0) \/ (x.k = "frac" /\ x.n < 0)
                THEN {"too_small"} ELSE {})
         \cup (IF hasMax /\ ((x.k = "int" /\ x.n > maximum) \/ (x.k = "frac" /\ x.n >= maximum))
                THEN {"too_big"} ELSE {})

\* z.coerce.number().int().positive()[.max(maximum)].default(default)
CoercedNumberField(v, default, hasMax, maximum) ==
    IF v.t = "undefined" THEN FieldOk(QueryNumber(NumInt(default)))
    ELSE LET x == CoerceNumber(v)
             issues == NumberChecks(x, hasMax, maximum)
         IN  IF issues = {} THEN FieldOk(QueryNumber(x)) ELSE FieldError(issues)

\* z.string().trim().optional()
SearchField(v) ==
    CASE v.t = "undefined" -> FieldOk(QueryAbsent)
      [] v.t = "string" -> FieldOk(QueryText(Trim(v.chars)))
      [] OTHER -> FieldError({"invalid_type"})

\* z.string().optional()
SortByField(v) ==
    CASE v.t = "undefined" -> FieldOk(QueryAbsent)
      [] v.t = "string" -> FieldOk(v)
      [] OTHER -> FieldError({"invalid_type"})

SortOrders == { <<"A", "S", "C">>, <<"D", "E", "S", "C">> }

\* z.enum(['ASC', 'DESC']).optional() without the default.
SortOrderField_NoDefault(v) ==
    CASE v.t = "undefined" -> FieldOk(QueryAbsent)
      [] v.t = "string" /\ v.chars \in SortOrders -> FieldOk(v)
      [] OTHER -> FieldError({"invalid_enum_value"})

\* z.enum(['ASC', 'DESC']).optional().default('DESC')
SortOrderField(v) ==
    CASE v.t = "undefined" -> FieldOk(QueryText(<<"D", "E", "S", "C">>))
      [] v.t = "string" /\ v.chars \in SortOrders -> FieldOk(v)
      [] OTHER -> FieldError({"invalid_enum_value"})

QueryFields == {"page", "limit", "search", "sortBy", "sortOrder"}

EmptyQuery == [f \in QueryFields |-> QueryAbsent]

\* paginationQueryCoerceSchema.safeParse(query)
paginationQueryCoerceSchema(query) ==
    LET parsed == [f \in QueryFields |->
                     CASE f = "page" -> CoercedNumberField(query[f], DEFAULT_PAGE, FALSE, 0)
                       [] f = "limit" -> CoercedNumberField(query[f], DEFAULT_LIMIT, TRUE,
                                                            MAX_ITEMS_PER_PAGE)
                       [] f = "search" -> SearchField(query[f])
                       [] f = "sortBy" -> SortByField(query[f])
                       [] f = "sortOrder" -> SortOrderField(query[f])]
        issues == { <<f, code>> \in QueryFields \X
                        {"invalid_type", "not_integer", "too_small", "too_big",
                         "invalid_enum_value"} : code \in parsed[f].issues }
    IN  IF issues = {}
        THEN [success |-> TRUE, data |-> [f \in QueryFields |-> parsed[f].value], issues |-> {}]
        ELSE [success |-> FALSE, data |-> EmptyQuery, issues |-> issues]

\* Texts of page and limit as they arrive in a query string.
NumberTexts ==
    { <<"1">>, <<"2">>, <<"2", "0">>, <<"1", "0", "0">>, <<"1", "0", "1">>, <<"2", "0", "0">>,
      <<"0">>, <<"-", "1">>, <<"a", "b", "c">>, <<>>, <<" ", "7", " ">>, <<"2", ".", "5">>,
      <<"3", ".", "0">> }

NumberInputs ==
    {QueryAbsent} \cup { QueryText(t) : t \in NumberTexts }
        \cup { QueryNumber(NumInt(n)) : n \in {2, 20} }

SearchInputs ==
    {QueryAbsent} \cup { QueryText(t) : t \in { <<>>, <<"a", "b">>, <<" ", " ", "a", " ">>,
                                                 <<" ", " ">> } }

SortByInputs == {QueryAbsent, QueryText(<<"n", "a", "m", "e">>)}

SortOrderInputs ==
    {QueryAbsent} \cup { QueryText(t) : t \in SortOrders \cup { <<"a", "s", "c">> } }

QueryInit ==
    /\ PipelineIdle
    /\ call = NoCall

CallPaginationQueryCoerceSchema ==
    /\ call = NoCall
    /\ \E page \in NumberInputs, limit \in NumberInputs, search \in SearchInputs,
          sortBy \in SortByInputs, sortOrder \in SortOrderInputs :
          LET query == [f \in QueryFields |->
                          CASE f = "page" -> page [] f = "limit" -> limit
                            [] f = "search" -> search [] f = "sortBy" -> sortBy
                            [] f = "sortOrder" -> sortOrder]
          IN  call' = [fn |-> "paginationQueryCoerceSchema", query |-> query,
                       result |-> paginationQueryCoerceSchema(query)]
    /\ UNCHANGED pipelineVars

QueryNext ==
    \/ CallPaginationQueryCoerceSchema
    \/ HelperReturns

QuerySpec == QueryInit /\ [][QueryNext]_vars

(***************************************************************************)
(* C15                                                                     *)
(***************************************************************************)
MaxNumber == 200

\* The decimal text of a positive integer.
RECURSIVE DecimalText(_)
DecimalText(n) ==
    LET digit == CHOOSE c \in Digits : DigitValue(c) = n % 10
    IN  IF n < 10 THEN <<digit>> ELSE Append(DecimalText(n \div 10), digit)

\* The number a page or limit input is meant to stand for: the integer whose
\* decimal text it is, the default when absent, 0 when it is neither.
Meant(v, default) ==
    IF v.t = "undefined" THEN default
    ELSE IF \E n \in 1..MaxNumber : v = QueryText(DecimalText(n))
         THEN CHOOSE n \in 1..MaxNumber : v = QueryText(DecimalText(n))
         ELSE 0

\* A query whose search, sortBy and sortOrder are absent or acceptable.
PlainFilters(query) ==
    /\ query.search.t \in {"undefined", "string"}
    /\ query.sortBy.t \in {"undefined", "string"}
    /\ query.sortOrder = QueryAbsent \/ query.sortOrder.chars \in SortOrders

\* C15: paginationQueryCoerceSchema accepts a query whose page and limit are
\* absent or the decimal text of a positive integer (limit at most 100) and
\* returns them as numbers; an absent page becomes 1, an absent limit 10, an
\* absent sortOrder 'DESC'; an absent search or sortBy stays absent.
C15_CoercionAndDefaults ==
    (call.fn = "paginationQueryCoerceSchema"
        /\ PlainFilters(call.query)
        /\ Meant(call.query.page, 1) >= 1
        /\ Meant(call.query.limit, 10) \in 1..100) =>
        /\ call.result.success
        /\ call.result.data.page = QueryNumber(NumInt(Meant(call.query.page, 1)))
        /\ call.result.data.limit = QueryNumber(NumInt(Meant(call.query.limit, 10)))
        /\ (call.query.sortOrder = QueryAbsent =>
                call.result.data.sortOrder = QueryText(<<"D", "E", "S", "C">>))
        /\ (call.query.sortOrder # QueryAbsent =>
                call.result.data.sortOrder = call.query.sortOrder)
        /\ (call.query.search = QueryAbsent => call.result.data.search = QueryAbsent)
        /\ (call.query.sortBy = QueryAbsent => call.result.data.sortBy = QueryAbsent)

\* {page: '2', limit: '20'} gives {page: 2, limit: 20, sortOrder: 'DESC'}.
C15_Witness ==
    /\ call.fn = "paginationQueryCoerceSchema"
    /\ call.query = [EmptyQuery EXCEPT !.page = QueryText(<<"2">>),
                                       !.limit = QueryText(<<"2", "0">>)]
    /\ call.result.success
    /\ call.result.data = [EmptyQuery EXCEPT !.page = QueryNumber(NumInt(2)),
                                             !.limit = QueryNumber(NumInt(20)),
                                             !.sortOrder = QueryText(<<"D", "E", "S", "C">>)]

(***************************************************************************)
(* C16                                                                     *)
(***************************************************************************)
\* C16: paginationQueryCoerceSchema clamps limit to 100: a limit that is the
\* text of an integer above 100, in an otherwise acceptable query, is accepted
\* and comes back as 100.
C16_LimitClampedTo100 ==
    (call.fn = "paginationQueryCoerceSchema"
        /\ PlainFilters(call.query)
        /\ Meant(call.query.page, 1) >= 1
        /\ Meant(call.query.limit, 10) > 100) =>
        /\ call.result.success
        /\ call.result.data.limit = QueryNumber(NumInt(100))

(***************************************************************************)
(* C17                                                                     *)
(***************************************************************************)
\* C17: validation with coercion is idempotent: parsing the output of a
\* successful parse succeeds and gives that same output.
C17_ParseIdempotent ==
    (call.fn = "paginationQueryCoerceSchema" /\ call.result.success) =>
        paginationQueryCoerceSchema(call.result.data) = call.result

\* A query whose every accepted field is changed by the first parse.
C17_Witness ==
    /\ call.fn = "paginationQueryCoerceSchema"
    /\ call.result.success
    /\ call.query.page = QueryText(<<" ", "7", " ">>)
    /\ call.query.limit = QueryAbsent
    /\ call.query.search = QueryText(<<" ", " ", "a", " ">>)
    /\ call.query.sortOrder = QueryAbsent
    /\ call.result.data.page = QueryNumber(NumInt(7))
    /\ call.result.data.search = QueryText(<<"a">>)

(***************************************************************************)
(* Slugs.  A string is a sequence of characters; a character outside ASCII *)
(* is written by its name.                                                 *)
(***************************************************************************)
LowerLetters ==
    {"a", "b", "c", "d", "e", "f", "g", "h", "i", "j", "k", "l", "m",
     "n", "o", "p", "q", "r", "s", "t", "u", "v", "w", "x", "y", "z"}

\* [a-z0-9]
SlugClass == LowerLetters \cup Digits

\* RegExp.prototype.test for /^[class]+(-[class]+)*$/: the automaton of the
\* pattern, run from the first character to the end of the string.
RECURSIVE RunSlugPattern(_, _, _, _)
RunSlugPattern(class, s, i, state) ==
    IF i > Len(s) THEN state = "group"
    ELSE IF s[i] \in class THEN RunSlugPattern(class, s, i + 1, "group")
    ELSE IF s[i] = "-" /\ state = "group" THEN RunSlugPattern(class, s, i + 1, "hyphen")
    ELSE FALSE

\* isValidSlug with a pattern that ignores case.
isValidSlug_IgnoreCase(value) == RunSlugPattern(SlugClass \cup {"A"}, value, 1, "start")

\* isValidSlug
isValidSlug(value) == RunSlugPattern(SlugClass, value, 1, "start")

\* slugSchema.safeParse(value).success for a string value
slugSchema(value) == RunSlugPattern(LowerLetters \cup Digits, value, 1, "start")

\* String.prototype.normalize('NFD') of one character
Decompose(c) ==
    CASE c = "e_acute" -> <<"e", "combining_acute">>
      [] c = "E_acute" -> <<"E", "combining_acute">>
      [] OTHER -> <<c>>

RECURSIVE NormalizeNFD(_)
NormalizeNFD(s) ==
    IF s = <<>> THEN <<>> ELSE Decompose(Head(s)) \o NormalizeNFD(Tail(s))

\* U+0300 to U+036F
CombiningMarks == {"combining_acute"}

\* replace(/[\u0300-\u036f]/g, '')
StripMarks(s) == SelectSeq(s, LAMBDA c : c \notin CombiningMarks)

LowerOf(c) ==
    CASE c = "A" -> "a" [] c = "E" -> "e" [] c = "O_slash" -> "o_slash" [] OTHER -> c

\* String.prototype.toLowerCase
ToLowerCase(s) == [i \in 1..Len(s) |-> LowerOf(s[i])]

\* replace(/[^a-z0-9]+/g, '-')
RECURSIVE ReplaceOthers(_, _)
ReplaceOthers(s, inRun) ==
    IF s = <<>> THEN <<>>
    ELSE IF Head(s) \in SlugClass THEN <<Head(s)>> \o ReplaceOthers(Tail(s), FALSE)
    ELSE IF inRun THEN ReplaceOthers(Tail(s), TRUE)
    ELSE <<"-">> \o ReplaceOthers(Tail(s), TRUE)

RECURSIVE StripLeadingHyphens(_)
StripLeadingHyphens(s) ==
    IF s # <<>> /\ Head(s) = "-" THEN StripLeadingHyphens(Tail(s)) ELSE s

RECURSIVE StripTrailingHyphens(_)
StripTrailingHyphens(s) ==
    IF s # <<>> /\ s[Len(s)] = "-" THEN StripTrailingHyphens(SubSeq(s, 1, Len(s) - 1)) ELSE s

\* Only the leading hyphens are removed.
StripEdgeHyphens_LeadingOnly(s) == StripLeadingHyphens(s)

\* replace(/^-+|-+$/g, '')
StripEdgeHyphens(s) == StripTrailingHyphens(StripLeadingHyphens(s))

\* replace(/-{2,}/g, '-')
RECURSIVE CollapseHyphens(_)
CollapseHyphens(s) ==
    IF Len(s) < 2 THEN s
    ELSE IF s[1] = "-" /\ s[2] = "-" THEN CollapseHyphens(Tail(s))
    ELSE <<s[1]>> \o CollapseHyphens(Tail(s))

\* A default fallback with a capital.
DEFAULT_FALLBACK_Capitalised == <<"S", "l", "u", "g">>

DEFAULT_FALLBACK == <<"s", "l", "u", "g">>

\* A fallback argument that was not passed.
NoFallback == <<"undefined">>

\* slugify returning the normalized text even when it is empty.
slugify_NoFallback(value, fallback) ==
    CollapseHyphens(StripEdgeHyphens(ReplaceOthers(
        Trim(ToLowerCase(StripMarks(NormalizeNFD(value)))), FALSE)))

\* slugify
slugify(value, fallback) ==
    LET normalized ==
            CollapseHyphens(StripEdgeHyphens(ReplaceOthers(
                Trim(ToLowerCase(StripMarks(NormalizeNFD(value)))), FALSE)))
    IN  IF Len(normalized) > 0 THEN normalized
        ELSE IF fallback = NoFallback THEN DEFAULT_FALLBACK ELSE fallback

\* `${baseSlug}-${attempt}`
Suffixed(baseSlug, attempt) == baseSlug \o <<"-">> \o DecimalText(attempt)

\* The while loop of generateUniqueSlug from a given attempt and slug.
RECURSIVE UniqueSlugLoop(_, _, _, _)
UniqueSlugLoop(baseSlug, slugSet, slug, attempt) ==
    IF slug \in slugSet
    THEN UniqueSlugLoop(baseSlug, slugSet, Suffixed(baseSlug, attempt + 1), attempt + 1)
    ELSE slug

\* generateUniqueSlug counting its attempts from 0.
generateUniqueSlug_FromZero(value, existingSlugs, fallback) ==
    LET baseSlug == slugify(value, fallback)
    IN  UniqueSlugLoop(baseSlug, existingSlugs, baseSlug, 0)

\* generateUniqueSlug
generateUniqueSlug(value, existingSlugs, fallback) ==
    LET baseSlug == slugify(value, fallback)
    IN  UniqueSlugLoop(baseSlug, existingSlugs, baseSlug, 1)

MaxSlugLen == 4

MaxSuffix == 5

SlugAlphabet == {"a", "1", "-", "_", "A", " ", "e_acute", "o_slash"}

\* Every string of at most MaxSlugLen characters of the alphabet.
SlugStrings == UNION { [1..n -> SlugAlphabet] : n \in 0..MaxSlugLen }

Fallbacks == {NoFallback, <<"x">>, <<"_">>}

\* Values handed to generateUniqueSlug.
UniqueSlugValues == { <<"h", "e", "l", "l", "o">>, <<"A", " ", "1">>, <<"_", "-">> }

\* Slugs already taken around a base: the base, its numbered variants, another.
TakenAround(baseSlug) ==
    {baseSlug, <<"o", "t", "h", "e", "r">>}
        \cup { Suffixed(baseSlug, k) : k \in 2..MaxSuffix }

SlugInit ==
    /\ PipelineIdle
    /\ call = NoCall

CallIsValidSlug ==
    /\ call = NoCall
    /\ \E value \in SlugStrings :
          call' = [fn |-> "isValidSlug", value |-> value, result |-> isValidSlug(value)]
    /\ UNCHANGED pipelineVars

CallSlugSchema ==
    /\ call = NoCall
    /\ \E value \in SlugStrings :
          call' = [fn |-> "slugSchema", value |-> value, result |-> slugSchema(value)]
    /\ UNCHANGED pipelineVars

CallSlugify ==
    /\ call = NoCall
    /\ \E value \in SlugStrings, fallback \in Fallbacks :
          call' = [fn |-> "slugify", value |-> value, fallback |-> fallback,
                   result |-> slugify(value, fallback)]
    /\ UNCHANGED pipelineVars

CallGenerateUniqueSlug ==
    /\ call = NoCall
    /\ \E value \in UniqueSlugValues, fallback \in Fallbacks :
          \E existingSlugs \in SUBSET TakenAround(slugify(value, fallback)) :
              call' = [fn |-> "generateUniqueSlug", value |-> value, fallback |-> fallback,
                       existingSlugs |-> existingSlugs,
                       result |-> generateUniqueSlug(value, existingSlugs, fallback)]
    /\ UNCHANGED pipelineVars

SlugNext ==
    \/ CallIsValidSlug
    \/ CallSlugSchema
    \/ CallSlugify
    \/ CallGenerateUniqueSlug
    \/ HelperReturns

SlugSpec == SlugInit /\ [][SlugNext]_vars

(***************************************************************************)
(* C18                                                                     *)
(***************************************************************************)
\* Non-empty groups of lowercase letters and digits separated by single hyphens.
HyphenatedGroups(s) ==
    /\ s # <<>>
    /\ \A i \in 1..Len(s) : s[i] \in LowerLetters \cup Digits \cup {"-"}
    /\ s[1] # "-"
    /\ s[Len(s)] # "-"
    /\ \A i \in 1..(Len(s) - 1) : ~(s[i] = "-" /\ s[i + 1] = "-")

\* C18: slugSchema and isValidSlug accept exactly the strings made of non-empty
\* groups of lowercase letters and digits separated by single hyphens (the
\* empty string, an uppercase letter, an underscore or any other character,
\* two adjacent hyphens, a leading or trailing hyphen are rejected), and the
\* two checks agree on every string.
C18_SlugFormat ==
    call.fn \in {"isValidSlug", "slugSchema"} =>
        /\ call.result = HyphenatedGroups(call.value)
        /\ isValidSlug(call.value) = slugSchema(call.value)

\* 'a-1' is accepted.
C18_Witness ==
    /\ call.fn = "isValidSlug"
    /\ call.value = <<"a", "-", "1">>
    /\ call.result

(***************************************************************************)
(* C19                                                                     *)
(***************************************************************************)
\* Letters, whether or not they have an ASCII base form.
Letters == LowerLetters \cup {"o_slash"}

\* The maximal runs of characters of a class in s, in order.
RECURSIVE MaximalRuns(_, _, _)
MaximalRuns(class, s, run) ==
    IF s = <<>> THEN (IF run = <<>> THEN <<>> ELSE <<run>>)
    ELSE IF Head(s) \in class THEN MaximalRuns(class, Tail(s), Append(run, Head(s)))
    ELSE (IF run = <<>> THEN <<>> ELSE <<run>>) \o MaximalRuns(class, Tail(s), <<>>)

RECURSIVE JoinByHyphen(_)
JoinByHyphen(runs) ==
    IF runs = <<>> THEN <<>>
    ELSE IF Len(runs) = 1 THEN runs[1]
    ELSE runs[1] \o <<"-">> \o JoinByHyphen(Tail(runs))

\* The slug made of the runs of a class in the diacritic-stripped, lowercased
\* value, or the fallback when there is none.
SlugOfRuns(class, value, fallback) ==
    LET runs == MaximalRuns(class, ToLowerCase(StripMarks(NormalizeNFD(value))), <<>>)
    IN  IF runs # <<>> THEN JoinByHyphen(runs)
        ELSE IF fallback = NoFallback THEN <<"s", "l", "u", "g">> ELSE fallback

\* C19 as stated: slugify returns the maximal runs of letters and digits of
\* the diacritic-stripped, lowercased input, in order, joined by single
\* hyphens, or the fallback ('slug' by default) when there is none.
C19_RunsOfLettersAndDigits ==
    call.fn = "slugify" =>
        call.result = SlugOfRuns(Letters \cup Digits, call.value, call.fallback)

\* C19 amended: slugify returns the maximal runs of the ASCII letters a-z and
\* digits 0-9 of the diacritic-stripped, lowercased input, in order, joined by
\* single hyphens, every other character (a letter with no ASCII base form
\* included) being a separator; the fallback when there is no such run.
C19_RunsOfAsciiLettersAndDigits ==
    call.fn = "slugify" =>
        call.result = SlugOfRuns(LowerLetters \cup Digits, call.value, call.fallback)

\* A letter with no ASCII base form separates two runs; an accent is dropped.
C19_Witness ==
    /\ call.fn = "slugify"
    /\ call.value = <<"A", "o_slash", "e_acute", "_">>
    /\ call.result = <<"a", "-", "e">>

(***************************************************************************)
(* C20                                                                     *)
(***************************************************************************)
\* C20: generateUniqueSlug returns the slugified base when it is not in
\* existingSlugs, otherwise base-k for the smallest k >= 2 with base-k not in
\* existingSlugs; the result is never a member of existingSlugs.
C20_SmallestFreeSuffix ==
    call.fn = "generateUniqueSlug" =>
        LET baseSlug == SlugOfRuns(LowerLetters \cup Digits, call.value, call.fallback)
            taken == call.existingSlugs
        IN  /\ call.result \notin taken
            /\ (baseSlug \notin taken => call.result = baseSlug)
            /\ (baseSlug \in taken =>
                    \E k \in 2..(MaxSuffix + 1) :
                        /\ call.result = baseSlug \o <<"-">> \o DecimalText(k)
                        /\ \A j \in 2..(k - 1) :
                               baseSlug \o <<"-">> \o DecimalText(j) \in taken)

\* ['hello', 'hello-2', 'hello-3', 'hello-5'] gives 'hello-4'.
C20_Witness ==
    /\ call.fn = "generateUniqueSlug"
    /\ call.value = <<"h", "e", "l", "l", "o">>
    /\ call.existingSlugs = { <<"h", "e", "l", "l", "o">>,
                               <<"h", "e", "l", "l", "o", "-", "2">>,
                               <<"h", "e", "l", "l", "o", "-", "3">>,
                               <<"h", "e", "l", "l", "o", "-", "5">> }
    /\ call.result = <<"h", "e", "l", "l", "o", "-", "4">>

(***************************************************************************)
(* UUID checks                                                             *)
(***************************************************************************)
\* [0-9a-f]
HexClass == Digits \cup {"a", "b", "c", "d", "e", "f"}

HyphenClass == {"-"}

\* n characters of one class: class{n}
Repeat(class, n) == [i \in 1..n |-> class]

\* /^[0-9a-f]{8}-[0-9a-f]{4}-V[0-9a-f]{3}-[89ab][0-9a-f]{3}-[0-9a-f]{12}$/ with
\* the class V of the version character
UuidPattern(versionClass) ==
    Repeat(HexClass, 8) \o <<HyphenClass>> \o Repeat(HexClass, 4) \o <<HyphenClass>>
        \o <<versionClass>> \o Repeat(HexClass, 3) \o <<HyphenClass>>
        \o <<{"8", "9", "a", "b"}>> \o Repeat(HexClass, 3) \o <<HyphenClass>>
        \o Repeat(HexClass, 12)

\* The lowercase form of an ASCII character, as the i flag compares it.
FoldCase(c) ==
    CASE c = "A" -> "a" [] c = "B" -> "b" [] c = "C" -> "c"
      [] c = "D" -> "d" [] c = "E" -> "e" [] c = "F" -> "f" [] OTHER -> c

\* RegExp.prototype.test for an anchored pattern of single-character classes
RegexTest(pattern, ignoreCase, value) ==
    /\ Len(value) = Len(pattern)
    /\ \A i \in 1..Len(pattern) :
          (IF ignoreCase THEN FoldCase(value[i]) ELSE value[i]) \in pattern[i]

\* isValidUuid with a pattern that lacks the i flag.
isValidUuid_CaseSensitive(value) ==
    RegexTest(UuidPattern({"1", "2", "3", "4", "5"}), FALSE, value)

\* isValidUuid
isValidUuid(value) ==
    RegexTest(UuidPattern({"1", "2", "3", "4", "5"}), TRUE, value)

\* isValidUuidV4
isValidUuidV4(value) == RegexTest(UuidPattern({"4"}), TRUE, value)

\* uuidV4Schema.safeParse(value).success for a string value
uuidV4Schema(value) == RegexTest(UuidPattern({"4"}), TRUE, value)

\* Characters that fill the groups of the strings drawn.
FillCharacters == {"0", "a", "F", "g"}

VersionCharacters == {"0", "1", "4", "5", "6", "f"}

VariantCharacters == {"7", "8", "9", "a", "B", "c"}

UuidShapes == {"canonical", "no hyphens", "short", "long", "underscores"}

\* The string of a given shape with the given version and variant characters.
UuidText(fill, version, variant, shape) ==
    LET sep == IF shape = "underscores" THEN <<"_">>
               ELSE IF shape = "no hyphens" THEN <<>> ELSE <<"-">>
        last == IF shape = "short" THEN 11 ELSE IF shape = "long" THEN 13 ELSE 12
    IN  [i \in 1..8 |-> fill] \o sep \o [i \in 1..4 |-> fill] \o sep
            \o <<version>> \o [i \in 1..3 |-> fill] \o sep
            \o <<variant>> \o [i \in 1..3 |-> fill] \o sep
            \o [i \in 1..last |-> fill]

UuidTexts ==
    { UuidText(fill, version, variant, shape) :
        fill \in FillCharacters, version \in VersionCharacters,
        variant \in VariantCharacters, shape \in UuidShapes }

IdInit ==
    /\ PipelineIdle
    /\ call = NoCall

CallIsValidUuid ==
    /\ call = NoCall
    /\ \E value \in UuidTexts :
          call' = [fn |-> "isValidUuid", value |-> value, result |-> isValidUuid(value)]
    /\ UNCHANGED pipelineVars

CallIsValidUuidV4 ==
    /\ call = NoCall
    /\ \E value \in UuidTexts :
          call' = [fn |-> "isValidUuidV4", value |-> value, result |-> isValidUuidV4(value)]
    /\ UNCHANGED pipelineVars

CallUuidV4Schema ==
    /\ call = NoCall
    /\ \E value \in UuidTexts :
          call' = [fn |-> "uuidV4Schema", value |-> value, result |-> uuidV4Schema(value)]
    /\ UNCHANGED pipelineVars

IdNext ==
    \/ CallIsValidUuid
    \/ CallIsValidUuidV4
    \/ CallUuidV4Schema
    \/ HelperReturns

IdSpec == IdInit /\ [][IdNext]_vars

(***************************************************************************)
(* C21                                                                     *)
(***************************************************************************)
HexEitherCase ==
    Digits \cup {"a", "b", "c", "d", "e", "f", "A", "B", "C", "D", "E", "F"}

\* 8-4-4-4-12 hyphenated hexadecimal groups in either letter case.
HexGroups(s) ==
    /\ Len(s) = 36
    /\ \A i \in 1..36 :
          IF i \in {9, 14, 19, 24} THEN s[i] = "-" ELSE s[i] \in HexEitherCase

\* The variant character is one of 8, 9, a, b.
VariantNibbleOk(s) == s[20] \in {"8", "9", "a", "b", "A", "B"}

\* C21 as stated: the general UUID check accepts every string of 8-4-4-4-12
\* hyphenated hexadecimal groups in either letter case and rejects every other
\* string; the strict check accepts exactly those of them whose version nibble
\* is 4 and whose variant nibble is one of 8, 9, a, b.
C21_GeneralCheckAcceptsHexGroups ==
    /\ (call.fn = "isValidUuid" => call.result = HexGroups(call.value))
    /\ (call.fn \in {"isValidUuidV4", "uuidV4Schema"} =>
            call.result = (HexGroups(call.value) /\ call.value[15] = "4"
                              /\ VariantNibbleOk(call.value)))

\* C21 amended: isValidUuid accepts exactly the 8-4-4-4-12 hexadecimal strings
\* (either case) whose version nibble is 1 to 5 and whose variant nibble is one
\* of 8, 9, a, b, hence every canonical v1 to v5 UUID and no string of another
\* shape; the strict checks accept exactly those whose version nibble is 4.
C21_GeneralCheckAcceptsV1ToV5 ==
    /\ (call.fn = "isValidUuid" =>
            call.result = (HexGroups(call.value)
                              /\ call.value[15] \in {"1", "2", "3", "4", "5"}
                              /\ VariantNibbleOk(call.value)))
    /\ (call.fn \in {"isValidUuidV4", "uuidV4Schema"} =>
            call.result = (HexGroups(call.value) /\ call.value[15] = "4"
                              /\ VariantNibbleOk(call.value)))

\* An uppercase version 5 identifier passes the general check.
C21_Witness ==
    /\ call.fn = "isValidUuid"
    /\ call.value = UuidText("F", "5", "B", "canonical")
    /\ call.result

(***************************************************************************)
(* Concurrent transform calls on one ZodValidationPipe instance.  The      *)
(* instance holds logger, schema and schemaName, all readonly; value, err  *)
(* and the log lines are locals of each call.  rawValue is the value most  *)
(* recently handed to the instance and pipeLogs the output of its logger.  *)
(***************************************************************************)
NumCallers == 2

Callers == 1..NumCallers

NoOutcome == [kind |-> "none", value |-> "", exception |-> NoException]

NotParsed == [kind |-> "none", issues |-> <<>>, parsed |-> "", message |-> ""]

\* The frame of a caller that has not called yet.
NotCalled ==
    [pc |-> "idle", value |-> "", parsed |-> NotParsed, outcome |-> NoOutcome, emitted |-> <<>>]

\* What leaves transform, without the log records.
OutcomeOf(result) ==
    [kind |-> result.kind, value |-> result.value, exception |-> result.exception]

\* The raw data read from a field of the instance shared by all calls.
RawDataOf_InstanceField(frame, latest) == latest

\* The rawData argument of logZodValidationError: the caller's own value.
RawDataOf(frame, latest) == frame.value

ConcurrentInit ==
    /\ nodeEnv \in NodeEnvs
    /\ pc = "idle"
    /\ now = 0
    /\ request = NoRequest
    /\ rawValue = "valid"
    /\ schemaName \in SchemaNames
    /\ pipeKind = "ZodValidationPipe"
    /\ filterKind = "AllExceptionsFilter"
    /\ parsedValue = ""
    /\ exception = NoException
    /\ pipeLogs = <<>>
    /\ filterLogs = <<>>
    /\ response = NoResponse
    /\ events = <<>>
    /\ call = NoCall
    /\ transformCalls = [c \in Callers |-> NotCalled]
    /\ interception = NotIntercepting
    /\ slugStore = EmptyStore
    /\ slugRequests = <<>>
    /\ slugLoop = NotLooping

\* transform(value, metadata) is entered by caller c.
EnterTransform(c) ==
    /\ transformCalls[c].pc = "idle"
    /\ \E value \in RawValues :
          /\ transformCalls' = [transformCalls EXCEPT ![c].pc = "parse", ![c].value = value]
          /\ rawValue' = value
    /\ UNCHANGED <<nodeEnv, pc, now, request, schemaName, pipeKind, filterKind, parsedValue,
                   exception, pipeLogs, filterLogs, response, events, call, interception, slugVars>>

\* return this.schema.parse(value), or the catch block up to its first call.
ParseStep(c) ==
    LET frame == transformCalls[c]
        parsed == SchemaParse(frame.value)
    IN  /\ frame.pc = "parse"
        /\ transformCalls' =
              [transformCalls EXCEPT ![c] =
                 CASE parsed.kind = "ok" ->
                        [frame EXCEPT !.pc = "done", !.parsed = parsed,
                                      !.outcome = OutcomeOf(Returned(parsed.parsed, <<>>))]
                   [] parsed.kind = "zod" ->
                        [frame EXCEPT !.pc = "log", !.parsed = parsed]
                   [] OTHER ->
                        [frame EXCEPT !.pc = "done", !.parsed = parsed,
                                      !.outcome = OutcomeOf(Thrown(
                                          PlainError(parsed.message, "stack of refinement"),
                                          <<>>))]]
        /\ UNCHANGED <<requestVars, call, interception, slugVars>>

\* this.logZodValidationError(err, value)
LogStep(c) ==
    LET frame == transformCalls[c]
        logged == logZodValidationError(frame.parsed.issues, RawDataOf(frame, rawValue),
                                        schemaName)
    IN  /\ frame.pc = "log"
        /\ pipeLogs' = pipeLogs \o logged.logs
        /\ transformCalls' =
              [transformCalls EXCEPT ![c] =
                 IF logged.threw
                 THEN [frame EXCEPT !.pc = "done",
                                    !.outcome = OutcomeOf(Thrown(LengthOfUndefinedError, <<>>))]
                 ELSE [frame EXCEPT !.pc = "throw", !.emitted = logged.logs]]
        /\ UNCHANGED <<nodeEnv, pc, now, request, rawValue, schemaName, pipeKind, filterKind,
                       parsedValue, exception, filterLogs, response, events, call, interception, slugVars>>

\* throw new BadRequestException('Validation error')
ThrowStep(c) ==
    LET frame == transformCalls[c]
    IN  /\ frame.pc = "throw"
        /\ transformCalls' =
              [transformCalls EXCEPT ![c] =
                 [frame EXCEPT !.pc = "done",
                               !.outcome = OutcomeOf(Thrown(
                                   BadRequestExceptionOfString(<<"Validation error">>), <<>>))]]
        /\ UNCHANGED <<requestVars, call, interception, slugVars>>

ConcurrentNext ==
    \E c \in Callers :
        \/ EnterTransform(c)
        \/ ParseStep(c)
        \/ LogStep(c)
        \/ ThrowStep(c)

ConcurrentSpec == ConcurrentInit /\ [][ConcurrentNext]_vars

(***************************************************************************)
(* C22                                                                     *)
(***************************************************************************)
\* The callers whose call has logged.
Loggers == {c \in DOMAIN transformCalls : transformCalls[c].emitted # <<>>}

\* C22: under every interleaving of the transform calls on one shared pipe,
\* each finished call has the outcome (returned value or thrown exception) it
\* has when run alone on its own value, the record it logged is the record of
\* that lone run (its own issues and raw payload), and the logger's output
\* holds exactly the records of the calls that logged.
C22_CallsAreIsolated ==
    /\ \A c \in DOMAIN transformCalls :
          transformCalls[c].pc = "done" =>
              LET alone == ZodValidationPipe_transform(transformCalls[c].value, schemaName, nodeEnv)
              IN  /\ transformCalls[c].outcome = OutcomeOf(alone)
                  /\ transformCalls[c].emitted = alone.logs
    /\ Len(pipeLogs) = Cardinality(Loggers)
    /\ \A c \in Loggers :
          \E i \in 1..Len(pipeLogs) : transformCalls[c].emitted = <<pipeLogs[i]>>

\* Two calls with different invalid payloads, the second entered before the
\* first has logged, both finished with a 400 and their own record.
C22_Witness ==
    /\ DOMAIN transformCalls = Callers
    /\ transformCalls[1].value = "badEmail"
    /\ transformCalls[2].value = "huge"
    /\ transformCalls[1].pc = "done"
    /\ transformCalls[2].pc = "done"
    /\ transformCalls[1].outcome.exception.status = 400
    /\ Len(pipeLogs) = 2
    /\ pipeLogs[1] = transformCalls[2].emitted[1]
    /\ pipeLogs[2] = transformCalls[1].emitted[1]
    /\ rawValue = "huge"

(***************************************************************************)
(* C23                                                                     *)
(***************************************************************************)
\* C23: every failure of ZodValidationPipe.transform ends in a logged
\* diagnostic, a thrown BadRequestException, or both; none leaves the pipe as
\* a raw, unlogged error.  Stated here for the failures that are schema
\* violations, the case the code means to log and turn into a 400.
C23_NoRawUnloggedFailure ==
    (pipeKind = "ZodValidationPipe" /\ PipeThrew /\ FailsSchema(rawValue)) =>
        \/ Len(pipeLogs) >= 1
        \/ (exception.class = "HttpException" /\ exception.status = 400)

(***************************************************************************)
(* LoggingInterceptor                                                      *)
(***************************************************************************)
ContextTypes == {"http", "rpc", "ws"}

\* user?.id ?? 'anonymous'
UserIds == {"anonymous", "user-1"}

\* What the handler's Observable emits: one value, or an error.
HandlerValue(value) ==
    [kind |-> "value", value |-> value, status |-> Missing, statusCode |-> Missing,
     stack |-> ""]

HandlerError(status, statusCode, stack) ==
    [kind |-> "error", value |-> "", status |-> status, statusCode |-> statusCode,
     stack |-> stack]

HandlerValues == {HandlerValue("user list"), HandlerValue("created user")}

HandlerErrors ==
    { HandlerError(status, statusCode, "stack of handler error") :
        status \in {Missing, Given(0), Given(404)},
        statusCode \in {Missing, Given(422), Given(503)} }

\* a ?? b
Coalesce(a, b) == IF a.defined THEN a ELSE b

\* One record of the interceptor's logger.
InterceptorLog(level, event, ic, statusCode, duration, stack) ==
    [level |-> level, event |-> event, method |-> ic.method, url |-> ic.url,
     ip |-> IF event = "Incoming Request" THEN ic.ip ELSE "",
     userAgent |-> IF event = "Incoming Request" THEN ic.userAgent ELSE "",
     userId |-> ic.userId, statusCode |-> statusCode, duration |-> duration,
     stack |-> stack]

\* The status of a failed request read from statusCode before status.
FailedStatus_StatusCodeFirst(error) ==
    Coalesce(Coalesce(error.statusCode, error.status), Given(500)).n

\* error.status ?? error.statusCode ?? 500
FailedStatus(error) ==
    Coalesce(Coalesce(error.status, error.statusCode), Given(500)).n

InterceptorInit ==
    /\ PipelineIdle
    /\ call = NoCall

\* intercept(context, next) up to the return of the Observable.
Intercept ==
    /\ interception.pc = "idle"
    /\ \E type \in ContextTypes, req \in Requests, userId \in UserIds :
          interception' =
              IF type # "http"
              THEN [NotIntercepting EXCEPT !.pc = "handling", !.type = type]
              ELSE LET ic == [NotIntercepting EXCEPT
                                 !.pc = "handling", !.type = type, !.tapped = TRUE,
                                 !.method = req.method, !.url = req.url,
                                 !.ip = "10.0.0.1", !.userAgent = "curl",
                                 !.userId = userId, !.startTime = now]
                   IN  [ic EXCEPT !.logs = << InterceptorLog("log", "Incoming Request",
                                                             ic, 0, 0, "") >>]
    /\ UNCHANGED <<requestVars, call, transformCalls, slugVars>>

\* The handler emits its value: the next callback of tap, then the value goes on.
HandlerEmits ==
    /\ interception.pc = "handling"
    /\ \E emitted \in HandlerValues, statusCode \in {200, 201} :
          interception' =
              [interception EXCEPT
                 !.pc = "done", !.emitted = emitted, !.passed = emitted,
                 !.responseStatus = statusCode,
                 !.logs = IF interception.tapped
                          THEN Append(@, InterceptorLog("log", "Completed Request",
                                          interception, statusCode,
                                          now - interception.startTime, ""))
                          ELSE @]
    /\ UNCHANGED <<requestVars, call, transformCalls, slugVars>>

\* The handler fails: the error callback of tap, then the error goes on.
HandlerFails ==
    /\ interception.pc = "handling"
    /\ \E error \in HandlerErrors :
          interception' =
              [interception EXCEPT
                 !.pc = "done", !.emitted = error, !.passed = error,
                 !.logs = IF interception.tapped
                          THEN Append(@, InterceptorLog("error", "Failed Request",
                                          interception, FailedStatus(error),
                                          now - interception.startTime, error.stack))
                          ELSE @]
    /\ UNCHANGED <<requestVars, call, transformCalls, slugVars>>

\* The Observable is over; the interceptor is ready for the next request.
InterceptionEnds ==
    /\ interception.pc = "done"
    /\ interception' = NotIntercepting
    /\ UNCHANGED <<requestVars, call, transformCalls, slugVars>>

InterceptorNext ==
    \/ Tick
    \/ Intercept
    \/ HandlerEmits
    \/ HandlerFails
    \/ InterceptionEnds

InterceptorSpec == InterceptorInit /\ [][InterceptorNext]_vars

(***************************************************************************)
(* C24                                                                     *)
(***************************************************************************)
\* The status the claim gives a failed request.
ClaimedFailedStatus(error) ==
    IF error.status.defined THEN error.status.n
    ELSE IF error.statusCode.defined THEN error.statusCode.n ELSE 500

\* C24: for an HTTP request whose handler emits one value or fails,
\* LoggingInterceptor logs 'Incoming Request' before the handler runs and then
\* exactly one terminal record, 'Completed Request' on a value or 'Failed
\* Request' at error severity on an error (status error.status, else
\* error.statusCode, else 500), never both; the value or error is passed on
\* unchanged; for a non-HTTP context nothing is logged.
C24_IncomingThenOneTerminalRecord ==
    LET logs == interception.logs
    IN  /\ (interception.type # "http" => logs = <<>>)
        /\ (interception.pc = "handling" /\ interception.type = "http" =>
                /\ Len(logs) = 1
                /\ logs[1].event = "Incoming Request"
                /\ logs[1].level = "log")
        /\ (interception.pc = "done" => interception.passed = interception.emitted)
        /\ (interception.pc = "done" /\ interception.type = "http" =>
                /\ Len(logs) = 2
                /\ logs[1].event = "Incoming Request"
                /\ (interception.emitted.kind = "value" =>
                        /\ logs[2].event = "Completed Request"
                        /\ logs[2].level = "log"
                        /\ logs[2].statusCode = interception.responseStatus)
                /\ (interception.emitted.kind = "error" =>
                        /\ logs[2].event = "Failed Request"
                        /\ logs[2].level = "error"
                        /\ logs[2].statusCode = ClaimedFailedStatus(interception.emitted)))

\* An error with statusCode only: 'Failed Request' with that status.
C24_Witness ==
    /\ interception.pc = "done"
    /\ interception.type = "http"
    /\ interception.emitted = HandlerError(Missing, Given(503), "stack of handler error")
    /\ Len(interception.logs) = 2
    /\ interception.logs[2].event = "Failed Request"
    /\ interception.logs[2].statusCode = 503

(***************************************************************************)
(* A store of used slugs fed by generateUniqueSlug, one call after another *)
(***************************************************************************)
MaxCalls == 3

\* Texts to make slugs of; the last one is itself a numbered variant.
StoreValues == UniqueSlugValues \cup { <<"h", "e", "l", "l", "o", "-", "2">> }

\* Slugs the store may hold at first.
StoreCandidates ==
    { <<"h", "e", "l", "l", "o">>, <<"h", "e", "l", "l", "o", "-", "2">>,
      <<"h", "e", "l", "l", "o", "-", "4">>, <<"a", "-", "1">>, <<"s", "l", "u", "g", "-", "2">> }

\* The store keeps its slugs and drops the new one.
Inserted_Dropped(used, slug) == used

\* The returned slug is added to the set of used slugs.
Inserted(used, slug) == used \cup {slug}

SlugSetInit ==
    /\ nodeEnv = "test"
    /\ pc = "idle"
    /\ now = 0
    /\ request = NoRequest
    /\ rawValue = "valid"
    /\ schemaName = ""
    /\ pipeKind = "ZodValidationPipe"
    /\ filterKind = "AllExceptionsFilter"
    /\ parsedValue = ""
    /\ exception = NoException
    /\ pipeLogs = <<>>
    /\ filterLogs = <<>>
    /\ response = NoResponse
    /\ events = <<>>
    /\ call = NoCall
    /\ transformCalls = <<>>
    /\ interception = NotIntercepting
    /\ \E initial \in SUBSET StoreCandidates :
          slugStore = [initial |-> initial, used |-> initial, returned |-> <<>>]
    /\ slugRequests = <<>>
    /\ slugLoop = NotLooping

\* generateUniqueSlug(value, used) and the insertion of its result.
GenerateAndInsert ==
    /\ Len(slugStore.returned) < MaxCalls
    /\ \E value \in StoreValues :
          LET slug == generateUniqueSlug(value, slugStore.used, NoFallback)
          IN  slugStore' = [slugStore EXCEPT !.used = Inserted(@, slug),
                                             !.returned = Append(@, slug)]
    /\ UNCHANGED <<requestVars, call, transformCalls, interception, slugRequests, slugLoop>>

SlugSetNext == GenerateAndInsert

SlugSetSpec == SlugSetInit /\ [][SlugSetNext]_vars

(***************************************************************************)
(* C25                                                                     *)
(***************************************************************************)
\* C25: from any set of used slugs, after any sequence of generateUniqueSlug
\* calls each of whose results is added to the set before the next call, the
\* returned slugs are pairwise distinct and none was in the initial set.
C25_ReturnedSlugsDistinct ==
    LET returned == slugStore.returned
    IN  /\ \A i, j \in 1..Len(returned) : i # j => returned[i] # returned[j]
        /\ \A i \in 1..Len(returned) : returned[i] \notin slugStore.initial

\* hello, hello-2 and hello-4 taken: 'hello' three times gives hello-3,
\* hello-5, hello-6.
C25_Witness ==
    /\ slugStore.initial = { <<"h", "e", "l", "l", "o">>, <<"h", "e", "l", "l", "o", "-", "2">>,
                             <<"h", "e", "l", "l", "o", "-", "4">> }
    /\ slugStore.returned = << <<"h", "e", "l", "l", "o", "-", "3">>,
                               <<"h", "e", "l", "l", "o", "-", "5">>,
                               <<"h", "e", "l", "l", "o", "-", "6">> >>

(***************************************************************************)
(* Requests that read the used slugs, generate a slug for the same text    *)
(* and insert it, with nothing that orders one request's steps against     *)
(* the other's.                                                            *)
(***************************************************************************)
NumRequests == 2

Requesters == 1..NumRequests

\* A request that has not read the store yet.
NotStarted(text) ==
    [pc |-> "start", text |-> text, existingSlugs |-> {}, slug |-> <<>>,
     readAt |-> 0, insertedAt |-> 0]

SlugRaceInit ==
    /\ nodeEnv = "test"
    /\ pc = "idle"
    /\ now = 0
    /\ request = NoRequest
    /\ rawValue = "valid"
    /\ schemaName = ""
    /\ pipeKind = "ZodValidationPipe"
    /\ filterKind = "AllExceptionsFilter"
    /\ parsedValue = ""
    /\ exception = NoException
    /\ pipeLogs = <<>>
    /\ filterLogs = <<>>
    /\ response = NoResponse
    /\ events = <<>>
    /\ call = NoCall
    /\ transformCalls = <<>>
    /\ interception = NotIntercepting
    /\ \E initial \in SUBSET StoreCandidates :
          slugStore = [initial |-> initial, used |-> initial, returned |-> <<>>]
    /\ \E text \in StoreValues : slugRequests = [r \in Requesters |-> NotStarted(text)]
    /\ slugLoop = NotLooping

\* The request reads the used slugs; readAt counts the insertions it sees.
ReadStore(r) ==
    /\ slugRequests[r].pc = "start"
    /\ slugRequests' = [slugRequests EXCEPT ![r].pc = "read",
                                            ![r].existingSlugs = slugStore.used,
                                            ![r].readAt = Len(slugStore.returned)]
    /\ UNCHANGED <<requestVars, call, transformCalls, interception, slugStore, slugLoop>>

\* generateUniqueSlug(text, existingSlugs) on what the request read.
GenerateSlug(r) ==
    /\ slugRequests[r].pc = "read"
    /\ slugRequests' =
          [slugRequests EXCEPT
             ![r].pc = "generated",
             ![r].slug = generateUniqueSlug(slugRequests[r].text,
                                            slugRequests[r].existingSlugs, NoFallback)]
    /\ UNCHANGED <<requestVars, call, transformCalls, interception, slugStore, slugLoop>>

\* The request inserts the slug it was given.
InsertSlug(r) ==
    /\ slugRequests[r].pc = "generated"
    /\ slugStore' = [slugStore EXCEPT !.used = Inserted(@, slugRequests[r].slug),
                                       !.returned = Append(@, slugRequests[r].slug)]
    /\ slugRequests' = [slugRequests EXCEPT ![r].pc = "inserted",
                                            ![r].insertedAt = Len(slugStore.returned) + 1]
    /\ UNCHANGED <<requestVars, call, transformCalls, interception, slugLoop>>

SlugRaceNext ==
    \E r \in Requesters :
        \/ ReadStore(r)
        \/ GenerateSlug(r)
        \/ InsertSlug(r)

SlugRaceSpec == SlugRaceInit /\ [][SlugRaceNext]_vars

(***************************************************************************)
(* C26                                                                     *)
(***************************************************************************)
BothInserted(a, b) ==
    /\ a # b
    /\ slugRequests[a].pc = "inserted"
    /\ slugRequests[b].pc = "inserted"

\* Request b read the store after request a had inserted its slug.
ReadAfterInsert(a, b) == slugRequests[a].insertedAt <= slugRequests[b].readAt

\* C26 as stated: two requests that read the used slugs, generate a slug for
\* the same text and insert it, insert distinct slugs under every
\* interleaving of their steps.
C26_InsertedSlugsDistinct ==
    \A a, b \in DOMAIN slugRequests :
        BothInserted(a, b) => slugRequests[a].slug # slugRequests[b].slug

\* C26 amended: the inserted slugs of two requests are distinct whenever one
\* of them read the used slugs after the other had inserted, and identical
\* whenever both read the same set, as they do when both read before either
\* inserts.
C26_DistinctIffSerialized ==
    \A a, b \in DOMAIN slugRequests :
        BothInserted(a, b) =>
            /\ (ReadAfterInsert(a, b) \/ ReadAfterInsert(b, a) =>
                    slugRequests[a].slug # slugRequests[b].slug)
            /\ (slugRequests[a].existingSlugs = slugRequests[b].existingSlugs =>
                    slugRequests[a].slug = slugRequests[b].slug)

\* One after the other on a store that holds hello: hello-2, then hello-3.
C26_Witness ==
    /\ DOMAIN slugRequests = Requesters
    /\ BothInserted(1, 2)
    /\ ReadAfterInsert(1, 2)
    /\ slugStore.initial = { <<"h", "e", "l", "l", "o">> }
    /\ slugRequests[1].slug = <<"h", "e", "l", "l", "o", "-", "2">>
    /\ slugRequests[2].slug = <<"h", "e", "l", "l", "o", "-", "3">>

(***************************************************************************)
(* generateUniqueSlug, one loop iteration at a time                        *)
(***************************************************************************)
\* A loop that runs at least twice whatever the set holds.
LoopContinues_AtLeastTwice(slugSet, slug, attempt) == slug \in slugSet \/ attempt < 3

\* while (slugSet.has(slug))
LoopContinues(slugSet, slug, attempt) == slug \in slugSet

LoopInit ==
    /\ PipelineIdle
    /\ call = NoCall

\* generateUniqueSlug(value, existingSlugs) up to the loop.
EnterGenerateUniqueSlug ==
    /\ slugLoop.pc = "idle"
    /\ \E value \in UniqueSlugValues :
          \E existingSlugs \in SUBSET TakenAround(slugify(value, NoFallback)) :
              slugLoop' = [pc |-> "test", value |-> value, existingSlugs |-> existingSlugs,
                           baseSlug |-> slugify(value, NoFallback),
                           slug |-> slugify(value, NoFallback),
                           attempt |-> 1, iterations |-> 0]
    /\ UNCHANGED <<requestVars, call, transformCalls, interception, slugStore, slugRequests>>

\* The body of the loop: attempt += 1; slug = `${baseSlug}-${attempt}`
LoopIteration ==
    /\ slugLoop.pc = "test"
    /\ LoopContinues(slugLoop.existingSlugs, slugLoop.slug, slugLoop.attempt)
    /\ slugLoop' = [slugLoop EXCEPT !.attempt = @ + 1,
                                     !.slug = Suffixed(slugLoop.baseSlug, slugLoop.attempt + 1),
                                     !.iterations = @ + 1]
    /\ UNCHANGED <<requestVars, call, transformCalls, interception, slugStore, slugRequests>>

\* The loop condition is false: return slug
LoopExit ==
    /\ slugLoop.pc = "test"
    /\ ~LoopContinues(slugLoop.existingSlugs, slugLoop.slug, slugLoop.attempt)
    /\ slugLoop' = [slugLoop EXCEPT !.pc = "returned"]
    /\ UNCHANGED <<requestVars, call, transformCalls, interception, slugStore, slugRequests>>

LoopNext ==
    \/ EnterGenerateUniqueSlug
    \/ LoopIteration
    \/ LoopExit

LoopSpec == LoopInit /\ [][LoopNext]_vars

\* The call is synchronous: once entered, the loop keeps running.
LoopFairSpec == LoopSpec /\ WF_vars(LoopIteration) /\ WF_vars(LoopExit)

\* The step-by-step loop returns what generateUniqueSlug returns.
LoopAgreesWithCall ==
    slugLoop.pc = "returned" =>
        slugLoop.slug = generateUniqueSlug(slugLoop.value, slugLoop.existingSlugs, NoFallback)

(***************************************************************************)
(* C27                                                                     *)
(***************************************************************************)
\* C27: generateUniqueSlug terminates for every finite existingSlugs, after
\* at most as many loop iterations as existingSlugs has distinct entries.
C27_TerminatesWithinSetSize ==
    /\ [](slugLoop.iterations <= Cardinality(slugLoop.existingSlugs))
    /\ ((slugLoop.pc = "test") ~> (slugLoop.pc = "returned"))

\* hello, hello-2 and hello-3 taken: three iterations, as many as entries.
C27_Witness ==
    /\ slugLoop.pc = "returned"
    /\ slugLoop.existingSlugs = { <<"h", "e", "l", "l", "o">>,
                                   <<"h", "e", "l", "l", "o", "-", "2">>,
                                   <<"h", "e", "l", "l", "o", "-", "3">> }
    /\ slugLoop.iterations = 3
    /\ slugLoop.slug = <<"h", "e", "l", "l", "o", "-", "4">>

(***************************************************************************)
(* C28                                                                     *)
(***************************************************************************)
\* C28: for every input string, with the default fallback or a fallback that
\* is itself a valid slug, slugify returns a non-empty string accepted by
\* isValidSlug and slugSchema, and so does generateUniqueSlug.
C28_ResultIsValidSlug ==
    (call.fn \in {"slugify", "generateUniqueSlug"}
        /\ (call.fallback = NoFallback \/ HyphenatedGroups(call.fallback))) =>
        /\ call.result # <<>>
        /\ HyphenatedGroups(call.result)
        /\ isValidSlug(call.result)
        /\ slugSchema(call.result)

\* An input of separators and an uppercase letter gives a valid slug.
C28_Witness ==
    /\ call.fn = "slugify"
    /\ call.value = <<"_", "A", " ", "1">>
    /\ call.fallback = NoFallback
    /\ call.result = <<"a", "-", "1">>

(***************************************************************************)
(* C29                                                                     *)
(***************************************************************************)
\* C29: slugify is the identity on valid slugs, and with the default fallback
\* it is idempotent: slugify(slugify(x)) = slugify(x) for every string x.
C29_IdentityOnSlugsAndIdempotent ==
    call.fn = "slugify" =>
        /\ (isValidSlug(call.value) => call.result = call.value)
        /\ (call.fallback = NoFallback =>
                slugify(call.result, NoFallback) = call.result)

\* No letter or digit: the default fallback, which slugify leaves as it is.
C29_Witness ==
    /\ call.fn = "slugify"
    /\ call.value = <<"-", "_">>
    /\ call.fallback = NoFallback
    /\ call.result = <<"s", "l", "u", "g">>
    /\ slugify(call.result, NoFallback) = <<"s", "l", "u", "g">>

(***************************************************************************)
(* C30                                                                     *)
(***************************************************************************)
\* C30: for page >= 1, limit >= 1 and total >= 0, calculatePaginationMeta
\* reports hasNextPage exactly when page * limit < total, that is when items
\* remain after the window of limit items that starts at toOffsetPagination's
\* offset (page - 1) * limit; and that offset is below total exactly when
\* page <= totalPages.
C30_HasNextPageMatchesOffsetWindow ==
    /\ (call.fn = "toOffsetPagination" =>
            /\ call.result.offset = (call.page - 1) * call.limit
            /\ call.result.limit = call.limit)
    /\ (call.fn = "calculatePaginationMeta" =>
            LET meta == call.result.meta
                window == toOffsetPagination(call.page, call.limit)
            IN  /\ meta.hasNextPage = (call.page * call.limit < call.total)
                /\ meta.hasNextPage = (window.offset + window.limit < call.total)
                /\ (window.offset < call.total) = (call.page <= meta.totalPages))

\* Page 3 of 13 items by 4: the window 8..11 leaves one item.
C30_Witness ==
    /\ call.fn = "calculatePaginationMeta"
    /\ call.page = 3 /\ call.limit = 4 /\ call.total = 13
    /\ call.result.meta.hasNextPage
    /\ toOffsetPagination(call.page, call.limit).offset = 8

====
